---- MODULE Spec2Model ----
(***************************************************************************)
(* A model of bestls: the listing pipeline of main.rs (request validation, *)
(* traversal, filter chain, sort, render, write) and the pure helpers of   *)
(* fsops.rs and cli.rs it is built from.                                   *)
(*                                                                         *)
(* Text is modelled as a sequence of one-character strings, so that        *)
(* trimming, case conversion, splitting and suffix tests are computed the  *)
(* way the Rust code computes them.  An Option is a sequence of length at  *)
(* most one: None is << >>, Some(x) is <<x>>.                              *)
(***************************************************************************)
EXTENDS Integers, Sequences, FiniteSets, TLC

VARIABLES
    pc,         \* main: the step the run is at
    cli,        \* the parsed command line (struct Cli)
    env,        \* what the platform does: entry order, failing calls, config
    theme,      \* Option: the Theme load_theme returned
    cfg,        \* Option: the FilterConfig from_cli returned
    stack,      \* the active calls of collect_files_recursive, innermost last
    files,      \* the Vec<FileEntry> main works on
    read_log,   \* the directories read_dir was called on, in call order
    traversed,  \* files as load_files returned it
    filtered,   \* files as retain left it
    output,     \* Option: the rendered payload
    stdout,     \* Option: what was printed on standard output
    out_file,   \* Option: the content of the --out file, None if not created
    stderr,     \* the messages printed on standard error
    exit_code,  \* Option: the exit status of the process
    size_str,   \* parse_size: the argument
    size_parts, \* the number text and the unit text the argument is made of
    size_pc,    \* parse_size: "call" before the call, "ret" after it
    size_res,   \* parse_size: the returned Option<u64>
    ext_items,  \* the texts the --filter-ext value is made of, comma-separated
    ext_arg,    \* Option: the --filter-ext value, None for a direct call
    ext_name,   \* matches_extension: the file name
    ext_list,   \* matches_extension: the extension list
    ext_pc,     \* "start", "call" once the list is built, "ret" after the call
    ext_res,    \* Option: the returned bool
    par_dir,    \* one directory level: the directory
    par_hidden, \* include_hidden
    par_env,    \* the platform: entry order and the entries whose metadata fails
    par_slots,  \* for each entry "todo", "running" or "done"
    par_out,    \* for each entry the Option<FileEntry> its extraction gave
    par_pc,     \* "map" while entries are extracted, "ret" once collected
    par_files,  \* Option: the Vec<FileEntry> collected
    par_payload, \* Option: the command line of the listing and its payload
    thm_cfg,    \* load_theme: the state and content of the config file
    thm_pc,     \* load_theme: "call" before the call, "ret" after it
    thm_res,    \* Option: the Theme returned
    col_theme,  \* get_file_color: the theme
    col_type,   \* the file type
    col_name,   \* the file name
    col_pc,     \* "call" before the call, "ret" after it
    col_res,    \* Option: the ColorValue returned
    cmd_disk,   \* runs of the program one after the other: the config directory
                \* and the config file in it
    cmd_log     \* the runs so far: what was asked, what was printed, the
                \* theme a listing loaded

main_vars == <<pc, cli, env, theme, cfg, stack, files, read_log, traversed,
               filtered, output, stdout, out_file, stderr, exit_code>>

size_vars == <<size_str, size_parts, size_pc, size_res>>

ext_vars == <<ext_items, ext_arg, ext_name, ext_list, ext_pc, ext_res>>

par_vars == <<par_dir, par_hidden, par_env, par_slots, par_out, par_pc, par_files,
              par_payload>>

thm_vars == <<thm_cfg, thm_pc, thm_res>>

col_vars == <<col_theme, col_type, col_name, col_pc, col_res>>

cmd_vars == <<cmd_disk, cmd_log>>

\* The variables of the helpers that are run on their own
unit_vars == <<size_vars, ext_vars, par_vars, thm_vars, col_vars, cmd_vars>>

vars == <<main_vars, unit_vars>>

----------------------------------------------------------------------------
(* Options *)

None == << >>

Some(x) == <<x>>

IsSome(o) == Len(o) = 1

Unwrap(o) == o[1]

----------------------------------------------------------------------------
(* Characters: the part of the ASCII range the inputs of the model are     *)
(* written in, with the byte value of each.                                *)

Digits == <<"0","1","2","3","4","5","6","7","8","9">>

UpperLetters == <<"A","B","C","D","E","F","G","H","I","J","K","L","M",
                  "N","O","P","Q","R","S","T","U","V","W","X","Y","Z">>

LowerLetters == <<"a","b","c","d","e","f","g","h","i","j","k","l","m",
                  "n","o","p","q","r","s","t","u","v","w","x","y","z">>

Punct42 == <<"*","+",",","-",".","/">>

Punct58 == <<":",";","<","=",">","?","@">>

Punct123 == <<"{","|","}","~">>

Range(s) == {s[i] : i \in 1..Len(s)}

IndexOf(c, s) == CHOOSE i \in 1..Len(s) : s[i] = c

\* The byte value of a character (its UTF-8 encoding is one byte).
Code(c) ==
    CASE c = " " -> 32
      [] c = "!" -> 33
      [] c \in Range(Punct42) -> 41 + IndexOf(c, Punct42)
      [] c \in Range(Digits) -> 47 + IndexOf(c, Digits)
      [] c \in Range(Punct58) -> 57 + IndexOf(c, Punct58)
      [] c \in Range(UpperLetters) -> 64 + IndexOf(c, UpperLetters)
      [] c = "[" -> 91
      [] c = "]" -> 93
      [] c = "_" -> 95
      [] c \in Range(LowerLetters) -> 96 + IndexOf(c, LowerLetters)
      [] c \in Range(Punct123) -> 122 + IndexOf(c, Punct123)

\* char::is_alphabetic, char::is_ascii_digit, char::is_whitespace
IsAlpha(c) == c \in Range(UpperLetters) \cup Range(LowerLetters)

IsDigit(c) == c \in Range(Digits)

IsSpace(c) == c = " "

\* char::to_uppercase, char::to_lowercase
ToUpper(c) ==
    IF c \in Range(LowerLetters) THEN UpperLetters[IndexOf(c, LowerLetters)] ELSE c

ToLower(c) ==
    IF c \in Range(UpperLetters) THEN LowerLetters[IndexOf(c, UpperLetters)] ELSE c

----------------------------------------------------------------------------
(* Text: str::trim, str::to_uppercase, str::to_lowercase, str::find,       *)
(* str::ends_with, str::starts_with, str::trim_start_matches, Ord for str  *)

RECURSIVE trim_start(_)
trim_start(s) ==
    IF s # << >> /\ IsSpace(Head(s)) THEN trim_start(Tail(s)) ELSE s

RECURSIVE trim_end(_)
trim_end(s) ==
    IF s # << >> /\ IsSpace(s[Len(s)]) THEN trim_end(SubSeq(s, 1, Len(s) - 1)) ELSE s

trim(s) == trim_end(trim_start(s))

to_uppercase(s) == [i \in 1..Len(s) |-> ToUpper(s[i])]

to_lowercase(s) == [i \in 1..Len(s) |-> ToLower(s[i])]

\* str::find(|c| c.is_alphabetic()): the first alphabetic position, 0 for None
find_alphabetic(s) ==
    IF \E i \in 1..Len(s) : IsAlpha(s[i])
    THEN CHOOSE i \in 1..Len(s) :
            IsAlpha(s[i]) /\ \A j \in 1..(i - 1) : ~IsAlpha(s[j])
    ELSE 0

ends_with(s, suffix) ==
    /\ Len(suffix) <= Len(s)
    /\ SubSeq(s, Len(s) - Len(suffix) + 1, Len(s)) = suffix

starts_with_char(s, c) == s # << >> /\ Head(s) = c

\* str::trim_start_matches(c): every leading c is removed
RECURSIVE trim_start_matches(_, _)
trim_start_matches(s, c) ==
    IF s # << >> /\ Head(s) = c THEN trim_start_matches(Tail(s), c) ELSE s

\* Ord for str: byte-wise lexicographic; a proper prefix is smaller.
RECURSIVE StrLess(_, _)
StrLess(a, b) ==
    IF b = << >> THEN FALSE
    ELSE IF a = << >> THEN TRUE
    ELSE IF Code(Head(a)) # Code(Head(b)) THEN Code(Head(a)) < Code(Head(b))
    ELSE StrLess(Tail(a), Tail(b))

StrLeq(a, b) == a = b \/ StrLess(a, b)

----------------------------------------------------------------------------
(* Numbers.  A u64 and the integer part of a real are written in binary,   *)
(* most significant bit first and without leading zeros (0 is << >>), so   *)
(* that values up to 2^64 and beyond are computed exactly.                 *)

\* f64: the significand holds 53 bits
MantBits == 53

\* u64: 64 bits
U64Bits == 64

\* The binary numeral of n (n < 2^30)
NatBits(n) ==
    LET len == CHOOSE l \in 0..30 : n \div (2 ^ l) = 0 /\ (l = 0 \/ n \div (2 ^ (l - 1)) # 0)
    IN  [i \in 1..len |-> (n \div (2 ^ (len - i))) % 2]

StripZeros(b) ==
    IF \E i \in 1..Len(b) : b[i] = 1
    THEN SubSeq(b, CHOOSE i \in 1..Len(b) : b[i] = 1 /\ \A j \in 1..(i - 1) : b[j] = 0, Len(b))
    ELSE << >>

\* a < b for two binary numerals without leading zeros
U64Less(a, b) ==
    \/ Len(a) < Len(b)
    \/ /\ Len(a) = Len(b)
       /\ \E i \in 1..Len(a) : a[i] < b[i] /\ \A j \in 1..(i - 1) : a[j] = b[j]

\* b + 1, for a numeral b that is not empty
BitsInc(b) ==
    IF \E i \in 1..Len(b) : b[i] = 0
    THEN LET p == CHOOSE i \in 1..Len(b) : b[i] = 0 /\ \A j \in (i + 1)..Len(b) : b[j] = 1
         IN  [i \in 1..Len(b) |-> IF i < p THEN b[i] ELSE IF i = p THEN 1 ELSE 0]
    ELSE [i \in 1..(Len(b) + 1) |-> IF i = 1 THEN 1 ELSE 0]

\* The binary expansion of the fraction r / den (0 <= r < den <= 10^6), ten
\* digits at a time: the first n base-1024 digits, and the remainder they
\* leave.
RECURSIVE FracLimbs(_, _, _)
FracLimbs(r, den, n) ==
    IF n = 0 THEN << >>
    ELSE <<(1024 * r) \div den>> \o FracLimbs((1024 * r) % den, den, n - 1)

RECURSIVE FracLimbRem(_, _, _)
FracLimbRem(r, den, n) ==
    IF n = 0 THEN r ELSE FracLimbRem((1024 * r) % den, den, n - 1)

\* Enough digits for a first 1 (r / den >= 10^-6 > 2^-20), MantBits digits
\* from it on and the digit after them.
FracLimbCount == (20 + MantBits + 1 + 9) \div 10

\* The first 10 * FracLimbCount binary digits of r / den
FracBits(r, den) ==
    LET limbs == FracLimbs(r, den, FracLimbCount)
    IN  [i \in 1..(10 * FracLimbCount) |->
            (limbs[((i - 1) \div 10) + 1] \div (2 ^ (9 - ((i - 1) % 10)))) % 2]

RECURSIVE DigitsValue(_)
DigitsValue(ds) ==
    IF ds = << >> THEN 0
    ELSE 10 * DigitsValue(SubSeq(ds, 1, Len(ds) - 1)) + (IndexOf(ds[Len(ds)], Digits) - 1)

RECURSIVE Pow10(_)
Pow10(n) == IF n = 0 THEN 1 ELSE 10 * Pow10(n - 1)

\* The decimal literal grammar of <f64 as FromStr>, for a text without
\* letters: an optional sign, digits with at most one '.', at least one
\* digit.  The value is int + num / den, negated when neg.
ParseDecimal(t) ==
    LET signed == t # << >> /\ Head(t) \in {"+", "-"}
        body   == IF signed THEN Tail(t) ELSE t
        dot    == IF \E i \in 1..Len(body) : body[i] = "."
                  THEN CHOOSE i \in 1..Len(body) :
                          body[i] = "." /\ \A j \in 1..(i - 1) : body[j] # "."
                  ELSE 0
        ip     == IF dot = 0 THEN body ELSE SubSeq(body, 1, dot - 1)
        fp     == IF dot = 0 THEN << >> ELSE SubSeq(body, dot + 1, Len(body))
    IN  IF /\ \A i \in 1..Len(ip) : IsDigit(ip[i])
           /\ \A i \in 1..Len(fp) : IsDigit(fp[i])
           /\ Len(ip) + Len(fp) > 0
        THEN Some([neg |-> t # << >> /\ Head(t) = "-",
                   int |-> DigitsValue(ip),
                   num |-> DigitsValue(fp),
                   den |-> Pow10(Len(fp))])
        ELSE None

\* The f64 nearest to a decimal (round to nearest, ties to even): the value
\* is mant * 2^exp, mant a numeral of MantBits bits (<< >> for zero).
RoundF64(d) ==
    IF d.int = 0 /\ d.num = 0 THEN [neg |-> d.neg, mant |-> << >>, exp |-> 0]
    ELSE
    LET ib     == NatBits(d.int)
        all    == ib \o FracBits(d.num, d.den)
        lead   == CHOOSE i \in 1..Len(all) : all[i] = 1 /\ \A j \in 1..(i - 1) : all[j] = 0
        last   == lead + MantBits - 1
        m      == SubSeq(all, lead, last)
        guard  == all[last + 1]
        sticky == \/ \E i \in (last + 2)..Len(all) : all[i] = 1
                  \/ FracLimbRem(d.num, d.den, FracLimbCount) # 0
        up     == guard = 1 /\ (sticky \/ m[MantBits] = 1)
        m2     == IF up THEN BitsInc(m) ELSE m
    IN  IF Len(m2) > MantBits
        THEN [neg |-> d.neg, mant |-> SubSeq(m2, 1, MantBits), exp |-> Len(ib) - last + 1]
        ELSE [neg |-> d.neg, mant |-> m2, exp |-> Len(ib) - last]

\* str::parse::<f64>()
parse_f64(t) ==
    LET d == ParseDecimal(t) IN IF IsSome(d) THEN Some(RoundF64(Unwrap(d))) ELSE None

\* x * (2^k as f64): a power of two scales an f64 exactly
f64_mul_pow2(x, k) == [x EXCEPT !.exp = @ + k]

\* x as u64: truncates, and saturates at 0 and at u64::MAX
f64_as_u64(x) ==
    LET n == Len(x.mant) + x.exp
    IN  IF x.mant = << >> \/ x.neg \/ n <= 0 THEN << >>
        ELSE IF n > U64Bits THEN [i \in 1..U64Bits |-> 1]
        ELSE IF x.exp >= 0 THEN x.mant \o [i \in 1..x.exp |-> 0]
        ELSE SubSeq(x.mant, 1, n)

----------------------------------------------------------------------------
(* fsops.rs: parse_size *)

\* unit_multiplier with an unknown unit read as bytes
unit_multiplier_lenient(unit) ==
    CASE unit \in {<<"K","B">>, <<"K">>} -> Some(10)
      [] unit \in {<<"M","B">>, <<"M">>} -> Some(20)
      [] unit \in {<<"G","B">>, <<"G">>} -> Some(30)
      [] unit \in {<<"T","B">>, <<"T">>} -> Some(40)
      [] OTHER -> Some(0)

\* The match on the unit: the multiplier, given as its base-2 logarithm
\* (1 = 2^0, 1024 = 2^10, ..., 1024^4 = 2^40).
unit_multiplier(unit) ==
    CASE unit = <<"B">> -> Some(0)
      [] unit \in {<<"K","B">>, <<"K">>} -> Some(10)
      [] unit \in {<<"M","B">>, <<"M">>} -> Some(20)
      [] unit \in {<<"G","B">>, <<"G">>} -> Some(30)
      [] unit \in {<<"T","B">>, <<"T">>} -> Some(40)
      [] OTHER -> None

parse_size(s0) ==
    LET s == to_uppercase(trim(s0))
    IN  IF s = << >> THEN None
        ELSE
        LET pos      == find_alphabetic(s)
            num_part == IF pos > 0 THEN SubSeq(s, 1, pos - 1) ELSE s
            unit     == IF pos > 0 THEN SubSeq(s, pos, Len(s)) ELSE <<"B">>
            num      == parse_f64(trim(num_part))
            mult     == unit_multiplier(unit)
        IN  IF ~IsSome(num) THEN None
            ELSE IF ~IsSome(mult) THEN None
            ELSE Some(f64_as_u64(f64_mul_pow2(Unwrap(num), Unwrap(mult))))

\* The warning parse_size prints on standard error when it returns None
parse_size_warning(s0) ==
    LET s == to_uppercase(trim(s0))
    IN  IF s = << >> THEN Some("empty size string provided")
        ELSE
        LET pos      == find_alphabetic(s)
            num_part == IF pos > 0 THEN SubSeq(s, 1, pos - 1) ELSE s
            unit     == IF pos > 0 THEN SubSeq(s, pos, Len(s)) ELSE <<"B">>
        IN  IF ~IsSome(parse_f64(trim(num_part))) THEN Some("invalid size value")
            ELSE IF ~IsSome(unit_multiplier(unit)) THEN Some("unknown size unit")
            ELSE None

----------------------------------------------------------------------------
(* fsops.rs: matches_extension, and the extension list of                  *)
(* FilterConfig::from_cli                                                  *)

\* str::split(','): the pieces between the commas, one piece more than
\* there are commas
RECURSIVE split_comma(_)
split_comma(s) ==
    IF \E i \in 1..Len(s) : s[i] = ","
    THEN LET p == CHOOSE i \in 1..Len(s) : s[i] = "," /\ \A j \in 1..(i - 1) : s[j] # ","
         IN  <<SubSeq(s, 1, p - 1)>> \o split_comma(SubSeq(s, p + 1, Len(s)))
    ELSE <<s>>

\* normalize_ext without the lower-casing
normalize_ext_keep_case(piece) == trim_start_matches(trim(piece), ".")

\* s.trim().trim_start_matches('.').to_lowercase()
normalize_ext(piece) == to_lowercase(trim_start_matches(trim(piece), "."))

\* cli.filter_ext.as_ref().map(|ext_filter| ext_filter.split(',').map(..).collect())
from_cli_exts(filter_ext) ==
    IF IsSome(filter_ext)
    THEN LET pieces == split_comma(Unwrap(filter_ext))
         IN  Some([i \in 1..Len(pieces) |-> normalize_ext(pieces[i])])
    ELSE None

\* matches_extension: an empty list accepts; else some extension, its leading
\* dots stripped, follows a '.' at the end of the filename
matches_extension(filename, extensions) ==
    IF extensions = << >> THEN TRUE
    ELSE \E i \in 1..Len(extensions) :
            ends_with(filename, <<".">> \o trim_start_matches(extensions[i], "."))

----------------------------------------------------------------------------
(* The glob crate, as main.rs and fsops.rs use it: Pattern::new and        *)
(* Pattern::matches with the default MatchOptions (case sensitive, no      *)
(* literal separator or leading dot required).  A compiled pattern is a    *)
(* sequence of tokens.                                                     *)

is_separator(c) == c = "/"

\* parse_char_specifiers: "a-z" is a range, any other character stands for
\* itself
RECURSIVE parse_char_specifiers(_)
parse_char_specifiers(cs) ==
    IF cs = << >> THEN << >>
    ELSE IF Len(cs) >= 3 /\ cs[2] = "-"
         THEN <<[lo |-> cs[1], hi |-> cs[3]]>> \o parse_char_specifiers(SubSeq(cs, 4, Len(cs)))
         ELSE <<[lo |-> cs[1], hi |-> cs[1]]>> \o parse_char_specifiers(Tail(cs))

in_char_specifiers(specs, c) ==
    \E k \in 1..Len(specs) : Code(specs[k].lo) <= Code(c) /\ Code(c) <= Code(specs[k].hi)

\* The position of the first ']' at or after position from, 0 when none
FindClose(chars, from) ==
    IF \E j \in from..Len(chars) : chars[j] = "]"
    THEN CHOOSE j \in from..Len(chars) :
            chars[j] = "]" /\ \A k \in from..(j - 1) : chars[k] # "]"
    ELSE 0

\* The loop of Pattern::new from position i on, tokens being those pushed
\* so far: Some(tokens) for Ok, None for a PatternError.
RECURSIVE GlobParse(_, _, _)
GlobParse(chars, i, tokens) ==
    IF i > Len(chars) THEN Some(tokens)
    ELSE IF chars[i] = "?" THEN GlobParse(chars, i + 1, Append(tokens, [t |-> "AnyChar"]))
    ELSE IF chars[i] = "*" THEN
        LET end   == IF \E j \in i..Len(chars) : chars[j] # "*"
                     THEN CHOOSE j \in i..Len(chars) :
                             chars[j] # "*" /\ \A k \in i..(j - 1) : chars[k] = "*"
                     ELSE Len(chars) + 1
            count == end - i
        IN  IF count > 2 THEN None
            ELSE IF count = 2 THEN
                IF i = 1 \/ is_separator(chars[i - 1])
                THEN IF end <= Len(chars) /\ is_separator(chars[end])
                     THEN GlobParse(chars, end + 1,
                            IF Len(tokens) > 1 /\ tokens[Len(tokens)].t = "AnyRecursiveSequence"
                            THEN tokens ELSE Append(tokens, [t |-> "AnyRecursiveSequence"]))
                     ELSE IF end = Len(chars) + 1
                     THEN GlobParse(chars, end,
                            IF Len(tokens) > 1 /\ tokens[Len(tokens)].t = "AnyRecursiveSequence"
                            THEN tokens ELSE Append(tokens, [t |-> "AnyRecursiveSequence"]))
                     ELSE None
                ELSE None
            ELSE GlobParse(chars, end, Append(tokens, [t |-> "AnySequence"]))
    ELSE IF chars[i] = "[" THEN
        IF i + 3 <= Len(chars) /\ chars[i + 1] = "!" /\ FindClose(chars, i + 3) # 0
        THEN LET j == FindClose(chars, i + 3)
             IN  GlobParse(chars, j + 1,
                    Append(tokens, [t |-> "AnyExcept",
                                    cs |-> parse_char_specifiers(SubSeq(chars, i + 2, j - 1))]))
        ELSE IF i + 2 <= Len(chars) /\ chars[i + 1] # "!" /\ FindClose(chars, i + 2) # 0
        THEN LET j == FindClose(chars, i + 2)
             IN  GlobParse(chars, j + 1,
                    Append(tokens, [t |-> "AnyWithin",
                                    cs |-> parse_char_specifiers(SubSeq(chars, i + 1, j - 1))]))
        ELSE None
    ELSE GlobParse(chars, i + 1, Append(tokens, [t |-> "Char", c |-> chars[i]]))

\* Pattern::new
pattern_new(pattern) == GlobParse(pattern, 1, << >>)

\* One token that is no wildcard sequence, against one character
TokenAccepts(token, c) ==
    CASE token.t = "AnyChar" -> TRUE
      [] token.t = "AnyWithin" -> in_char_specifiers(token.cs, c)
      [] token.t = "AnyExcept" -> ~in_char_specifiers(token.cs, c)
      [] token.t = "Char" -> token.c = c

\* Pattern::matches_from: do the tokens from ti on match the file name from
\* position fi on
RECURSIVE matches_from(_, _, _, _, _)
matches_from(follows_separator, tokens, ti, file, fi) ==
    IF ti > Len(tokens) THEN fi > Len(file)
    ELSE IF tokens[ti].t \in {"AnySequence", "AnyRecursiveSequence"}
    THEN \/ matches_from(follows_separator, tokens, ti + 1, file, fi)
         \/ \E k \in fi..Len(file) :
               /\ tokens[ti].t = "AnyRecursiveSequence" => is_separator(file[k])
               /\ matches_from(is_separator(file[k]), tokens, ti + 1, file, k + 1)
         \/ /\ tokens[ti].t = "AnyRecursiveSequence"
            /\ matches_from(FALSE, tokens, ti + 1, file, Len(file) + 1)
    ELSE /\ fi <= Len(file)
         /\ TokenAccepts(tokens[ti], file[fi])
         /\ matches_from(is_separator(file[fi]), tokens, ti + 1, file, fi + 1)

\* Pattern::matches
pattern_matches(tokens, file) == matches_from(TRUE, tokens, 1, file, 1)

\* fsops.rs matches_pattern: the pattern is compiled and matched; one that
\* does not compile matches nothing
matches_pattern(filename, pattern) ==
    LET pat == pattern_new(pattern)
    IN  IF IsSome(pat) THEN pattern_matches(Unwrap(pat), filename) ELSE FALSE

----------------------------------------------------------------------------
(* The file system the listing runs on.  Node 1 is the directory the       *)
(* request names; every other node is an entry of its parent directory:    *)
(*                                                                         *)
(*     root/{ a.rs, .h, d/{ b.rs, .g/{ x.txt }, e/{ a.rs, up -> root } },  *)
(*            B.RS }                                                       *)
(*                                                                         *)
(* len is the length metadata reports, mtime the modification time in      *)
(* days after Monday 1 January 2024 00:00:00 UTC (None when the platform   *)
(* has none), mode the permission bits, uid and gid the owner.             *)

Fs ==
    << [parent |-> 0, name |-> << >>, kind |-> "dir", len |-> 4096,
       mtime |-> Some(0), mode |-> 493, uid |-> 0, gid |-> 0],
       [parent |-> 1, name |-> <<"a",".","r","s">>, kind |-> "file", len |-> 100,
       mtime |-> Some(4), mode |-> 420, uid |-> 1000, gid |-> 100],
       [parent |-> 1, name |-> <<".","h">>, kind |-> "file", len |-> 2048,
       mtime |-> Some(0), mode |-> 420, uid |-> 1000, gid |-> 100],
       [parent |-> 1, name |-> <<"d">>, kind |-> "dir", len |-> 4096,
       mtime |-> Some(1), mode |-> 493, uid |-> 1000, gid |-> 100],
       [parent |-> 1, name |-> <<"B",".","R","S">>, kind |-> "file", len |-> 1024,
       mtime |-> Some(1), mode |-> 420, uid |-> 0, gid |-> 0],
       [parent |-> 4, name |-> <<"b",".","r","s">>, kind |-> "file", len |-> 2048,
       mtime |-> Some(4), mode |-> 420, uid |-> 1000, gid |-> 100],
       [parent |-> 4, name |-> <<".","g">>, kind |-> "dir", len |-> 4096,
       mtime |-> Some(0), mode |-> 493, uid |-> 1000, gid |-> 100],
       [parent |-> 4, name |-> <<"e">>, kind |-> "dir", len |-> 4096,
       mtime |-> Some(7), mode |-> 493, uid |-> 1000, gid |-> 100],
       [parent |-> 7, name |-> <<"x",".","t","x","t">>, kind |-> "file", len |-> 100,
       mtime |-> None, mode |-> 384, uid |-> 1000, gid |-> 100],
       [parent |-> 8, name |-> <<"a",".","r","s">>, kind |-> "file", len |-> 5,
       mtime |-> Some(2), mode |-> 420, uid |-> 1000, gid |-> 100],
       [parent |-> 8, name |-> <<"u","p">>, kind |-> "symlink", len |-> 1,
       mtime |-> Some(2), mode |-> 511, uid |-> 1000, gid |-> 100] >>

Root == CHOOSE n \in 1..Len(Fs) : Fs[n].parent = 0

Nodes == 1..Len(Fs)

\* The entries of directory d, in the order of their node numbers
Children(d) == SelectSeq([i \in 1..Len(Fs) |-> i], LAMBDA n : Fs[n].parent = d)

Reverse(s) == [i \in 1..Len(s) |-> s[Len(s) + 1 - i]]

\* The depth of a node: 0 for the root directory
RECURSIVE Depth(_)
Depth(n) == IF Fs[n].parent = 0 THEN 0 ELSE 1 + Depth(Fs[n].parent)

\* The decimal text of a number
RECURSIVE NatToText(_)
NatToText(n) ==
    IF n < 10 THEN <<Digits[n + 1]>>
    ELSE Append(NatToText(n \div 10), Digits[(n % 10) + 1])

----------------------------------------------------------------------------
(* fsops.rs: map_data and get_owner_group *)

Weekdays == << <<"M","o","n">>, <<"T","u","e">>, <<"W","e","d">>, <<"T","h","u">>,
               <<"F","r","i">>, <<"S","a","t">>, <<"S","u","n">> >>

\* dt.format("%a %d %b %Y %H:%M:%S") of midnight UTC, t days after Monday
\* 1 January 2024 (t < 31)
FormatTime(t) ==
    Weekdays[(t % 7) + 1] \o <<" ">>
        \o (IF t + 1 < 10 THEN <<"0">> ELSE << >>) \o NatToText(t + 1)
        \o <<" ","J","a","n"," ","2","0","2","4"," ","0","0",":","0","0",":","0","0">>

\* The nine mode tests of map_data, from 0o400 down to 0o001
PermString(mode) ==
    [i \in 1..9 |->
        IF (mode \div (2 ^ (9 - i))) % 2 # 0
        THEN <<"r","w","x">>[((i - 1) % 3) + 1]
        ELSE "-"]

\* The user and group databases: User::from_uid and Group::from_gid
UserName(uid) == IF uid = 0 THEN Some(<<"r","o","o","t">>) ELSE None

GroupName(gid) ==
    IF gid = 0 THEN Some(<<"r","o","o","t">>)
    ELSE IF gid = 100 THEN Some(<<"u","s","e","r","s">>)
    ELSE None

get_owner_group(meta) ==
    [user  |-> IF IsSome(UserName(meta.uid)) THEN Unwrap(UserName(meta.uid))
               ELSE NatToText(meta.uid),
     group |-> IF IsSome(GroupName(meta.gid)) THEN Unwrap(GroupName(meta.gid))
               ELSE NatToText(meta.gid)]

\* FileType of an entry: regular, directory, symlink tested in that order,
\* anything else a File
EntryType(kind) ==
    IF kind = "file" THEN "File"
    ELSE IF kind = "dir" THEN "Directory"
    ELSE IF kind = "symlink" THEN "Symlink"
    ELSE "File"

\* entry.metadata(): the metadata of the entry itself (a symbolic link is
\* not followed); None when the call fails
Metadata(e, n) == IF n \in e.meta_fail THEN None ELSE Some(Fs[n])

\* map_data on the entry of node n: None for Err.  human_size is the
\* bytesize crate's Display of the length, kept as the length it formats.
map_data(e, n) ==
    IF ~IsSome(Metadata(e, n)) THEN None
    ELSE LET meta == Unwrap(Metadata(e, n))
         IN  Some([name        |-> Fs[n].name,
                   e_type      |-> EntryType(meta.kind),
                   len_bytes   |-> meta.len,
                   human_size  |-> [ByteSize |-> meta.len],
                   modified    |-> IF IsSome(meta.mtime) THEN FormatTime(Unwrap(meta.mtime))
                                   ELSE << >>,
                   permissions |-> PermString(meta.mode),
                   owner       |-> get_owner_group(meta).user,
                   group       |-> get_owner_group(meta).group])

----------------------------------------------------------------------------
(* fsops.rs: get_files, and one directory level of collect_files_recursive *)

\* The entries of d that exist on the platform e
Existing(e, d) == SelectSeq(Children(d), LAMBDA n : n \notin e.absent)

\* fs::read_dir(d): None when the directory cannot be read, else its
\* entries in the order the platform yields them
read_dir(e, d) ==
    IF d \in e.read_fail THEN None
    ELSE Some(IF e.rev THEN Reverse(Existing(e, d)) ELSE Existing(e, d))

\* hidden_filter with the test of the name negated
hidden_filter_inverted(entries, include_hidden) ==
    SelectSeq(entries, LAMBDA n : include_hidden \/ starts_with_char(Fs[n].name, "."))

\* hidden_filter with the directories kept whatever their names
hidden_filter_files_only(entries, include_hidden) ==
    SelectSeq(entries, LAMBDA n : \/ include_hidden
                                  \/ ~starts_with_char(Fs[n].name, ".")
                                  \/ Fs[n].kind = "dir")

\* .filter(|entry| include_hidden || !entry.file_name().starts_with('.'))
hidden_filter(entries, include_hidden) ==
    SelectSeq(entries, LAMBDA n : include_hidden \/ ~starts_with_char(Fs[n].name, "."))

\* entries.par_iter().map(map_data).filter_map(Result::ok).collect():
\* the records of the entries whose extraction succeeds, in entry order
map_entries(e, entries) ==
    LET ok == SelectSeq(entries, LAMBDA n : IsSome(map_data(e, n)))
    IN  [i \in 1..Len(ok) |-> Unwrap(map_data(e, ok[i]))]

\* get_files: None for Err
get_files(e, path, include_hidden) ==
    IF ~IsSome(read_dir(e, path)) THEN None
    ELSE Some(map_entries(e, hidden_filter(Unwrap(read_dir(e, path)), include_hidden)))

----------------------------------------------------------------------------
(* cli.rs: the parsed command line *)

\* struct Cli with no argument given: clap's defaults
DefaultCli ==
    [path        |-> None,
     json        |-> FALSE,
     json_pretty |-> FALSE,
     sort_by     |-> "name",
     all         |-> FALSE,
     compact     |-> FALSE,
     columns     |-> None,
     output_file |-> None,
     format      |-> "table",
     no_color    |-> FALSE,
     tree        |-> FALSE,
     depth       |-> None,
     filter_ext  |-> None,
     filter_name |-> None,
     min_size    |-> None,
     max_size    |-> None]

\* effective_format with the two legacy switches tested in the other order
effective_format_json_first(c) ==
    IF c.json THEN "json"
    ELSE IF c.json_pretty THEN "json-pretty"
    ELSE c.format

\* Cli::effective_format
effective_format(c) ==
    IF c.json_pretty THEN "json-pretty"
    ELSE IF c.json THEN "json"
    ELSE c.format

----------------------------------------------------------------------------
(* color.rs: colours, the theme and its loading from the config file *)

\* enum ColorValue: for each variant its snake_case name (the name serde
\* reads, from_str matches and Display writes) and the tabled colour
\* to_tabled_color gives
ColorTable ==
    << <<<<"b","l","a","c","k">>, "Black", "FG_BLACK">>,
       <<<<"r","e","d">>, "Red", "FG_RED">>,
       <<<<"g","r","e","e","n">>, "Green", "FG_GREEN">>,
       <<<<"y","e","l","l","o","w">>, "Yellow", "FG_YELLOW">>,
       <<<<"b","l","u","e">>, "Blue", "FG_BLUE">>,
       <<<<"m","a","g","e","n","t","a">>, "Magenta", "FG_MAGENTA">>,
       <<<<"c","y","a","n">>, "Cyan", "FG_CYAN">>,
       <<<<"w","h","i","t","e">>, "White", "FG_WHITE">>,
       <<<<"b","r","i","g","h","t","_","b","l","a","c","k">>, "BrightBlack", "FG_BRIGHT_BLACK">>,
       <<<<"b","r","i","g","h","t","_","r","e","d">>, "BrightRed", "FG_BRIGHT_RED">>,
       <<<<"b","r","i","g","h","t","_","g","r","e","e","n">>, "BrightGreen", "FG_BRIGHT_GREEN">>,
       <<<<"b","r","i","g","h","t","_","y","e","l","l","o","w">>, "BrightYellow", "FG_BRIGHT_YELLOW">>,
       <<<<"b","r","i","g","h","t","_","b","l","u","e">>, "BrightBlue", "FG_BRIGHT_BLUE">>,
       <<<<"b","r","i","g","h","t","_","m","a","g","e","n","t","a">>, "BrightMagenta", "FG_BRIGHT_MAGENTA">>,
       <<<<"b","r","i","g","h","t","_","c","y","a","n">>, "BrightCyan", "FG_BRIGHT_CYAN">>,
       <<<<"b","r","i","g","h","t","_","w","h","i","t","e">>, "BrightWhite", "FG_BRIGHT_WHITE">> >>

\* The variant whose snake_case name is exactly s
color_named(s) ==
    IF \E i \in 1..Len(ColorTable) : ColorTable[i][1] = s
    THEN Some(ColorTable[CHOOSE i \in 1..Len(ColorTable) : ColorTable[i][1] = s][2])
    ELSE None

\* ColorValue::from_str: match s.to_lowercase().as_str()
color_from_str(s) == color_named(to_lowercase(s))

\* The deserialization with an unknown name read as black
deserialize_color_lenient(s) ==
    IF IsSome(color_named(s)) THEN color_named(s) ELSE Some("Black")

\* Deserialize for ColorValue, derived with rename_all = "snake_case": the
\* variant of that very name, None for the error
deserialize_color(s) == color_named(s)

\* ColorValue::to_tabled_color
to_tabled_color(v) ==
    ColorTable[CHOOSE i \in 1..Len(ColorTable) : ColorTable[i][2] = v][3]

\* FileTypeColors::default()
DefaultFileTypeColors ==
    [file |-> "BrightCyan", directory |-> "BrightBlue", symlink |-> "BrightMagenta"]

\* TableColors::default()
DefaultTableColors ==
    [name |-> "BrightCyan", size |-> "BrightMagenta",
     date |-> "BrightYellow", header |-> "BrightGreen"]

\* default_extension_colors(), as the pairs it is collected from
DefaultExtensionPairs ==
    << <<<<"r","s">>, "Yellow">>,
       <<<<"p","y">>, "Blue">>,
       <<<<"j","s">>, "Yellow">>,
       <<<<"t","s">>, "Blue">>,
       <<<<"g","o">>, "BrightCyan">>,
       <<<<"c">>, "BrightBlue">>,
       <<<<"c","p","p">>, "BrightBlue">>,
       <<<<"j","a","v","a">>, "Red">>,
       <<<<"m","d">>, "Cyan">>,
       <<<<"t","x","t">>, "White">>,
       <<<<"p","d","f">>, "Red">>,
       <<<<"t","o","m","l">>, "Red">>,
       <<<<"j","s","o","n">>, "Green">>,
       <<<<"y","a","m","l">>, "Magenta">>,
       <<<<"y","m","l">>, "Magenta">>,
       <<<<"x","m","l">>, "Yellow">>,
       <<<<"z","i","p">>, "Red">>,
       <<<<"t","a","r">>, "Red">>,
       <<<<"g","z">>, "Red">>,
       <<<<"p","n","g">>, "Magenta">>,
       <<<<"j","p","g">>, "Magenta">>,
       <<<<"j","p","e","g">>, "Magenta">>,
       <<<<"g","i","f">>, "Magenta">>,
       <<<<"s","v","g">>, "Yellow">> >>

\* default_extension_colors(): the map
default_extension_colors ==
    [e \in {DefaultExtensionPairs[i][1] : i \in 1..Len(DefaultExtensionPairs)} |->
        DefaultExtensionPairs[CHOOSE i \in 1..Len(DefaultExtensionPairs) :
                                  DefaultExtensionPairs[i][1] = e][2]]

\* Theme::default()
DefaultTheme ==
    [file_types |-> DefaultFileTypeColors,
     extensions |-> default_extension_colors,
     table      |-> DefaultTableColors]

\* No key written directly under [colors]
NoPlainKeys == [file |-> None, directory |-> None, symlink |-> None]

\* ColorConfig::default(): a config file with no [colors] content
EmptyColors ==
    [file_types |-> None, extensions |-> None, table |-> None, plain |-> NoPlainKeys]

\* The platform has no config file.  A config file is its state ("no_dir"
\* when the config directory cannot be determined, "absent", "unreadable",
\* "syntax" when it is not TOML of the shape of ThemeConfig, "ok") and the
\* content of its [colors] table: file_types and table are None or a record
\* of Option colour names, extensions is None or a map from extension to
\* colour name, plain holds the values of the keys file, directory and
\* symlink written directly under [colors], which are no fields of
\* ColorConfig.
NoConfig == [state |-> "absent", colors |-> EmptyColors]

\* The fields of a section of the config file deserialize
section_parses(section) ==
    \A f \in DOMAIN section :
        IsSome(section[f]) => IsSome(deserialize_color(Unwrap(section[f])))

\* A section with #[serde(default)]: the fields given, the defaults for the
\* others
section_value(section, defaults) ==
    [f \in DOMAIN defaults |->
        IF IsSome(section[f]) THEN Unwrap(deserialize_color(Unwrap(section[f])))
        ELSE defaults[f]]

\* toml::from_str::<ThemeConfig>: None for the error.  ColorConfig does not
\* deny unknown fields, so the keys of colors.plain are skipped unread.
parse_config(colors) ==
    IF /\ IsSome(colors.file_types) => section_parses(Unwrap(colors.file_types))
       /\ IsSome(colors.table) => section_parses(Unwrap(colors.table))
    THEN Some([file_types |-> IF IsSome(colors.file_types)
                              THEN Some(section_value(Unwrap(colors.file_types),
                                                      DefaultFileTypeColors))
                              ELSE None,
               extensions |-> colors.extensions,
               table      |-> IF IsSome(colors.table)
                              THEN Some(section_value(Unwrap(colors.table),
                                                      DefaultTableColors))
                              ELSE None])
    ELSE None

\* into_theme with a mapping of an unknown colour removing the entry of its
\* extension
into_theme_unknown_unsets(config) ==
    [file_types |-> IF IsSome(config.file_types) THEN Unwrap(config.file_types)
                    ELSE DefaultFileTypeColors,
     extensions |-> IF IsSome(config.extensions)
                    THEN LET m    == Unwrap(config.extensions)
                             good == {e \in DOMAIN m : IsSome(color_from_str(m[e]))}
                         IN  [e \in (DOMAIN default_extension_colors \ DOMAIN m) \cup good |->
                                 IF e \in good THEN Unwrap(color_from_str(m[e]))
                                 ELSE default_extension_colors[e]]
                    ELSE default_extension_colors,
     table      |-> IF IsSome(config.table) THEN Unwrap(config.table)
                    ELSE DefaultTableColors]

\* ThemeConfig::into_theme: the sections given replace the defaults, the
\* extension mappings whose colour from_str knows are inserted
into_theme(config) ==
    [file_types |-> IF IsSome(config.file_types) THEN Unwrap(config.file_types)
                    ELSE DefaultFileTypeColors,
     extensions |-> IF IsSome(config.extensions)
                    THEN LET m    == Unwrap(config.extensions)
                             good == {e \in DOMAIN m : IsSome(color_from_str(m[e]))}
                         IN  [e \in DOMAIN default_extension_colors \cup good |->
                                 IF e \in good THEN Unwrap(color_from_str(m[e]))
                                 ELSE default_extension_colors[e]]
                    ELSE default_extension_colors,
     table      |-> IF IsSome(config.table) THEN Unwrap(config.table)
                    ELSE DefaultTableColors]

\* load_theme_from_config: None for Err
load_theme_from_config(e) ==
    IF e.config.state # "ok" THEN None
    ELSE IF ~IsSome(parse_config(e.config.colors)) THEN None
    ELSE Some(into_theme(Unwrap(parse_config(e.config.colors))))

\* load_theme: the theme of the config file, or the default theme
load_theme(e) ==
    IF IsSome(load_theme_from_config(e)) THEN Unwrap(load_theme_from_config(e))
    ELSE DefaultTheme

\* A platform where every node of Fs exists, every call succeeds,
\* directories list their entries in node order and there is no config file
DefaultEnv ==
    [absent      |-> {},
     rev         |-> FALSE,
     meta_fail   |-> {},
     read_fail   |-> {},
     config      |-> NoConfig,
     create_fail |-> FALSE,
     write_fail  |-> FALSE]

\* str::find('.'): the first position of a dot, 0 for None
find_dot(s) ==
    IF \E i \in 1..Len(s) : s[i] = "."
    THEN CHOOSE i \in 1..Len(s) : s[i] = "." /\ \A j \in 1..(i - 1) : s[j] # "."
    ELSE 0

\* str::rfind('.'): the last position of a dot, 0 for None
rfind_dot(s) ==
    IF \E i \in 1..Len(s) : s[i] = "."
    THEN CHOOSE i \in 1..Len(s) : s[i] = "." /\ \A j \in (i + 1)..Len(s) : s[j] # "."
    ELSE 0

\* get_file_color with the extension taken after the first dot
get_file_color_first_dot(file_type, filename, th) ==
    IF file_type = "File"
    THEN LET pos == find_dot(filename)
             ext == to_lowercase(SubSeq(filename, pos + 1, Len(filename)))
         IN  IF pos # 0 /\ ext \in DOMAIN th.extensions THEN th.extensions[ext]
             ELSE th.file_types.file
    ELSE IF file_type = "Directory" THEN th.file_types.directory
    ELSE th.file_types.symlink

\* get_file_color
get_file_color(file_type, filename, th) ==
    IF file_type = "File"
    THEN LET pos == rfind_dot(filename)
             ext == to_lowercase(SubSeq(filename, pos + 1, Len(filename)))
         IN  IF pos # 0 /\ ext \in DOMAIN th.extensions THEN th.extensions[ext]
             ELSE th.file_types.file
    ELSE IF file_type = "Directory" THEN th.file_types.directory
    ELSE th.file_types.symlink

----------------------------------------------------------------------------
(* main.rs: FilterConfig::from_cli and passes_filters *)

Ok(x) == <<"Ok", x>>

Err(x) == <<"Err", x>>

IsOk(r) == r[1] = "Ok"

\* The range test with no request ever refused
range_inverted_never(min, max) == FALSE

\* if min > max, on two u64
range_inverted(min, max) == U64Less(max, min)

\* FilterConfig::from_cli: Ok(FilterConfig) or Err(ConfigError); the error
\* is kept as the name of its variant
from_cli(c) ==
    LET exts == from_cli_exts(c.filter_ext)
        pat  == IF IsSome(c.filter_name) THEN pattern_new(Unwrap(c.filter_name)) ELSE None
        min  == IF IsSome(c.min_size) THEN parse_size(Unwrap(c.min_size)) ELSE None
        max  == IF IsSome(c.max_size) THEN parse_size(Unwrap(c.max_size)) ELSE None
    IN  IF IsSome(c.filter_name) /\ ~IsSome(pat) THEN Err("InvalidGlobPattern")
        ELSE IF IsSome(c.min_size) /\ ~IsSome(min) THEN Err("InvalidMinSize")
        ELSE IF IsSome(c.max_size) /\ ~IsSome(max) THEN Err("InvalidMaxSize")
        ELSE IF IsSome(min) /\ IsSome(max) /\ range_inverted(Unwrap(min), Unwrap(max))
             THEN Err("SizeRangeInvalid")
        ELSE Ok([exts         |-> exts,
                 name_pattern |-> c.filter_name,
                 min_size     |-> min,
                 max_size     |-> max])

\* What the parse_size calls of from_cli print on standard error
from_cli_warnings(c) ==
    IF IsSome(c.filter_name) /\ ~IsSome(pattern_new(Unwrap(c.filter_name))) THEN << >>
    ELSE IF IsSome(c.min_size) /\ IsSome(parse_size_warning(Unwrap(c.min_size)))
    THEN <<<<"Warning", Unwrap(parse_size_warning(Unwrap(c.min_size)))>>>>
    ELSE IF IsSome(c.max_size) /\ IsSome(parse_size_warning(Unwrap(c.max_size)))
    THEN <<<<"Warning", Unwrap(parse_size_warning(Unwrap(c.max_size)))>>>>
    ELSE << >>

\* The lower bound made exclusive: f.len_bytes <= min
below_min_or_equal(len, min) == ~U64Less(min, NatBits(len))

\* f.len_bytes < min, a file length against a u64
below_min(len, min) == U64Less(NatBits(len), min)

\* f.len_bytes > max
above_max(len, max) == U64Less(max, NatBits(len))

\* passes_filters with the name pattern left out
passes_filters_no_name(f, fc) ==
    IF IsSome(fc.exts) /\ ~matches_extension(f.name, Unwrap(fc.exts)) THEN FALSE
    ELSE IF IsSome(fc.min_size) /\ below_min(f.len_bytes, Unwrap(fc.min_size)) THEN FALSE
    ELSE IF IsSome(fc.max_size) /\ above_max(f.len_bytes, Unwrap(fc.max_size)) THEN FALSE
    ELSE TRUE

\* passes_filters: the four tests in the order of the code, each one
\* returning false at once
passes_filters(f, fc) ==
    IF IsSome(fc.exts) /\ ~matches_extension(f.name, Unwrap(fc.exts)) THEN FALSE
    ELSE IF IsSome(fc.name_pattern) /\ ~matches_pattern(f.name, Unwrap(fc.name_pattern))
         THEN FALSE
    ELSE IF IsSome(fc.min_size) /\ below_min(f.len_bytes, Unwrap(fc.min_size)) THEN FALSE
    ELSE IF IsSome(fc.max_size) /\ above_max(f.len_bytes, Unwrap(fc.max_size)) THEN FALSE
    ELSE TRUE

\* files.retain(|f| passes_filters(f, &filter_cfg))
retain(fs, fc) == SelectSeq(fs, LAMBDA f : passes_filters(f, fc))

----------------------------------------------------------------------------
(* main.rs: the sort step *)

\* The comparators of the three sort_by arms: a.cmp(b) = Less
key_less(sort_by, a, b) ==
    IF sort_by = "name" THEN StrLess(a.name, b.name)
    ELSE IF sort_by = "size" THEN a.len_bytes < b.len_bytes
    ELSE StrLess(a.modified, b.modified)

\* insert with no regard to the key: x goes last
insert_last(x, s, sort_by) == Append(s, x)

\* insert with x put before the elements that compare equal to it
insert_before_equal(x, s, sort_by) ==
    LET k == Cardinality({i \in 1..Len(s) : key_less(sort_by, s[i], x)})
    IN  SubSeq(s, 1, k) \o <<x>> \o SubSeq(s, k + 1, Len(s))

\* x put into the sorted s behind every element that is not greater
insert(x, s, sort_by) ==
    LET k == Cardinality({i \in 1..Len(s) : ~key_less(sort_by, x, s[i])})
    IN  SubSeq(s, 1, k) \o <<x>> \o SubSeq(s, k + 1, Len(s))

\* The sort step with the records left in the order they came in
sort_keeping_order(s, sort_by) == s

\* slice::sort_by, a stable sort: the elements are inserted one by one, in
\* the order they have in s
RECURSIVE sort_prefix(_, _, _)
sort_prefix(s, n, sort_by) ==
    IF n = 0 THEN << >>
    ELSE insert(s[n], sort_prefix(s, n - 1, sort_by), sort_by)

sort(s, sort_by) == sort_prefix(s, Len(s), sort_by)

----------------------------------------------------------------------------
(* main.rs and table.rs: rendering *)

\* The serialization without the last field
to_json_no_group(f) ==
    << <<"name", f.name>>, <<"e_type", f.e_type>>, <<"len_bytes", f.len_bytes>>,
       <<"human_size", f.human_size>>, <<"modified", f.modified>>,
       <<"permissions", f.permissions>>, <<"owner", f.owner>> >>

\* serde's serialization of one FileEntry: the fields in declaration order
to_json(f) ==
    << <<"name", f.name>>, <<"e_type", f.e_type>>, <<"len_bytes", f.len_bytes>>,
       <<"human_size", f.human_size>>, <<"modified", f.modified>>,
       <<"permissions", f.permissions>>, <<"owner", f.owner>>, <<"group", f.group>> >>

\* [..].join(sep) on texts
RECURSIVE join(_, _)
join(ts, sep) ==
    IF ts = << >> THEN << >>
    ELSE IF Len(ts) = 1 THEN ts[1]
    ELSE ts[1] \o sep \o join(Tail(ts), sep)

\* The compact text with a header line put first
format_compact_with_header(entries) ==
    join(<< <<"N","a","m","e">> >> \o [i \in 1..Len(entries) |-> entries[i].name],
         <<"\n">>)

\* format_compact_inner: the names joined by "\n"
format_compact_inner(entries) ==
    join([i \in 1..Len(entries) |-> entries[i].name], <<"\n">>)

\* The header row tabled derives for DisplayEntry
TableHeader ==
    <<"Name", "Type", "Size", "Modified", "Permissions", "Owner", "Group">>

\* format_table with the columns argument obeyed: the Name column alone
\* when one is given
format_table_selecting(entries, columns, compact, use_color, th) ==
    IF compact THEN [kind |-> "compact", text |-> format_compact_inner(entries)]
    ELSE [kind   |-> "table",
          header |-> IF IsSome(columns) THEN <<"Name">> ELSE TableHeader,
          rows   |-> [i \in 1..Len(entries) |->
                        IF IsSome(columns) THEN <<entries[i].name>>
                        ELSE <<entries[i].name, entries[i].e_type, entries[i].human_size,
                               entries[i].modified, entries[i].permissions,
                               entries[i].owner, entries[i].group>>],
          colors |-> IF use_color
                     THEN Some([first_column |-> to_tabled_color(th.table.name),
                                column_2     |-> to_tabled_color(th.table.size),
                                column_3     |-> to_tabled_color(th.table.date),
                                first_row    |-> to_tabled_color(th.table.header)])
                     ELSE None]

\* format_table: the compact text, or the table as its header, its rows and
\* the colours put on it (None when use_color is false)
format_table(entries, columns, compact, use_color, th) ==
    IF compact THEN [kind |-> "compact", text |-> format_compact_inner(entries)]
    ELSE [kind   |-> "table",
          header |-> TableHeader,
          rows   |-> [i \in 1..Len(entries) |->
                        <<entries[i].name, entries[i].e_type, entries[i].human_size,
                          entries[i].modified, entries[i].permissions,
                          entries[i].owner, entries[i].group>>],
          colors |-> IF use_color
                     THEN Some([first_column |-> to_tabled_color(th.table.name),
                                column_2     |-> to_tabled_color(th.table.size),
                                column_3     |-> to_tabled_color(th.table.date),
                                first_row    |-> to_tabled_color(th.table.header)])
                     ELSE None]

\* The output string of main for the effective format
render(c, fs, th) ==
    IF effective_format(c) = "json"
    THEN [kind |-> "json", pretty |-> FALSE, items |-> [i \in 1..Len(fs) |-> to_json(fs[i])]]
    ELSE IF effective_format(c) = "json-pretty"
    THEN [kind |-> "json", pretty |-> TRUE, items |-> [i \in 1..Len(fs) |-> to_json(fs[i])]]
    ELSE format_table(fs, c.columns, c.compact, ~c.no_color, th)

\* The names the payload lists, in payload order
split_lines(text) ==
    LET brk == <<0>> \o SelectSeq([i \in 1..Len(text) |-> i], LAMBDA i : text[i] = "\n")
                    \o <<Len(text) + 1>>
    IN  [i \in 1..(Len(brk) - 1) |-> SubSeq(text, brk[i] + 1, brk[i + 1] - 1)]

payload_names(p) ==
    IF p.kind = "json" THEN [i \in 1..Len(p.items) |-> p.items[i][1][2]]
    ELSE IF p.kind = "table" THEN [i \in 1..Len(p.rows) |-> p.rows[i][1]]
    ELSE IF p.text = << >> THEN << >>
    ELSE split_lines(p.text)

----------------------------------------------------------------------------
(* parse_size on its own: the argument is a number text and a unit text    *)
(* with blanks before, between and after them.  No number text holds a     *)
(* letter and every unit text is empty or opens with a letter, so the      *)
(* number text (with the blanks around it) is the text before the first    *)
(* alphabetic character and the unit text is the text from it on.          *)

\* The longest run of blanks put before, between and after the two parts
MaxPad == 1

SizeNumTexts ==
    { << >>, <<"0">>, <<"1">>, <<"7">>, <<"1","0","0">>,
      <<"2","0","4","8">>, <<"1",".","5">>, <<"0",".","5">>, <<".","5">>,
      <<"5",".">>, <<"0",".","1">>, <<"0",".","0","0","1">>,
      <<"1","2","8",".","0","6","7">>, <<"1","6","7","7","7","2","1","6">>,
      <<".">>, <<"1",".","2",".","3">>, <<"-","5">>, <<"+","5">>, <<"-">>,
      <<"1","_","0">>, <<"1"," ","5">>, <<"1",",","5">> }

SizeUnitTexts ==
    { << >>, <<"b">>, <<"B">>, <<"k">>, <<"K">>, <<"k","b">>, <<"K","B">>,
      <<"K","b">>, <<"k","B">>, <<"m">>, <<"M">>, <<"m","b">>, <<"M","B">>,
      <<"g">>, <<"G">>, <<"g","b">>, <<"G","B">>, <<"t">>, <<"T">>,
      <<"t","b">>, <<"T","B">>, <<"x">>, <<"K","i","B">>, <<"E","3">>,
      <<"B","B">>, <<"K"," ","B">>, <<"K","B","S">>, <<"b","k">> }

Blanks(n) == [i \in 1..n |-> " "]

\* The variables of a part of the program that does not run
MainIdle ==
    /\ pc = "idle"
    /\ cli = DefaultCli
    /\ env = DefaultEnv
    /\ theme = None
    /\ cfg = None
    /\ stack = << >>
    /\ files = << >>
    /\ read_log = << >>
    /\ traversed = << >>
    /\ filtered = << >>
    /\ output = None
    /\ stdout = None
    /\ out_file = None
    /\ stderr = << >>
    /\ exit_code = None

SizeIdle ==
    /\ size_str = << >>
    /\ size_parts = [num |-> << >>, unit |-> << >>]
    /\ size_pc = "idle"
    /\ size_res = None

ExtIdle ==
    /\ ext_items = << >>
    /\ ext_arg = None
    /\ ext_name = << >>
    /\ ext_list = << >>
    /\ ext_pc = "idle"
    /\ ext_res = None

ParIdle ==
    /\ par_dir = 0
    /\ par_hidden = FALSE
    /\ par_env = DefaultEnv
    /\ par_slots = << >>
    /\ par_out = << >>
    /\ par_pc = "idle"
    /\ par_files = None
    /\ par_payload = None

ThmIdle ==
    /\ thm_cfg = NoConfig
    /\ thm_pc = "idle"
    /\ thm_res = None

ColIdle ==
    /\ col_theme = DefaultTheme
    /\ col_type = "File"
    /\ col_name = << >>
    /\ col_pc = "idle"
    /\ col_res = None

CmdIdle ==
    /\ cmd_disk = [dir |-> TRUE, file |-> None]
    /\ cmd_log = << >>

SizeInit ==
    /\ MainIdle
    /\ ExtIdle
    /\ ParIdle
    /\ ThmIdle
    /\ ColIdle
    /\ CmdIdle
    /\ \E n \in SizeNumTexts, u \in SizeUnitTexts, a, b, c \in 0..MaxPad :
          /\ size_parts = [num |-> n, unit |-> u]
          /\ size_str = Blanks(a) \o n \o Blanks(b) \o u \o Blanks(c)
    /\ size_pc = "call"
    /\ size_res = None

ParseSize ==
    /\ size_pc = "call"
    /\ size_res' = parse_size(size_str)
    /\ size_pc' = "ret"
    /\ UNCHANGED <<size_str, size_parts, main_vars, ext_vars, par_vars, thm_vars, col_vars,
                   cmd_vars>>

SizeNext == ParseSize

SpecSize == SizeInit /\ [][SizeNext]_vars

----------------------------------------------------------------------------
(* The extension filter on its own: from_cli builds the list from a        *)
(* --filter-ext value made of comma-separated texts and matches_extension  *)
(* is called with it; or matches_extension is called with an empty list,   *)
(* which from_cli never builds.                                            *)

\* The largest number of comma-separated texts in a --filter-ext value
MaxExts == 2

ExtPieces ==
    {
      <<"r","s">>, <<"R","S">>, <<".","r","s">>, <<".",".","r","s">>,
      <<" ","r","s"," ">>, << >>, <<" ",".","R","s">>, <<"t","x","t">>,
      <<"t","a","r",".","g","z">>, <<".">> }

ExtNames ==
    {
      <<"a",".","r","s">>, <<"a",".","R","S">>, <<"r","s">>,
      <<".","r","s">>, <<"a",".","t","x","t">>, <<"a",".">>, <<"a">>,
      <<"a",".","t","a","r",".","g","z">>,
      <<"a",".","r","s",".","b","a","k">>, <<"a","r","s">>,
      <<"a",".",".","r","s">>, <<"a",".","R","s">> }

ExtItemLists == UNION {[1..n -> ExtPieces] : n \in 1..MaxExts}

ExtInit ==
    /\ MainIdle
    /\ SizeIdle
    /\ ParIdle
    /\ ThmIdle
    /\ ColIdle
    /\ CmdIdle
    /\ ext_name \in ExtNames
    /\ ext_res = None
    /\ \/ /\ ext_items \in ExtItemLists
          /\ ext_arg = Some(join(ext_items, <<",">>))
          /\ ext_list = << >>
          /\ ext_pc = "start"
       \/ /\ ext_items = << >>
          /\ ext_arg = None
          /\ ext_list = << >>
          /\ ext_pc = "call"

\* from_cli, the extension list
BuildExts ==
    /\ ext_pc = "start"
    /\ ext_list' = Unwrap(from_cli_exts(ext_arg))
    /\ ext_pc' = "call"
    /\ UNCHANGED <<ext_items, ext_arg, ext_name, ext_res, main_vars, size_vars,
                   par_vars, thm_vars, col_vars,
                   cmd_vars>>

\* matches_extension(ext_name, ext_list)
MatchExt ==
    /\ ext_pc = "call"
    /\ ext_res' = Some(matches_extension(ext_name, ext_list))
    /\ ext_pc' = "ret"
    /\ UNCHANGED <<ext_items, ext_arg, ext_name, ext_list, main_vars, size_vars,
                   par_vars, thm_vars, col_vars,
                   cmd_vars>>

ExtNext == BuildExts \/ MatchExt

SpecExt == ExtInit /\ [][ExtNext]_vars

----------------------------------------------------------------------------
(* main.rs: one run of the listing.  The run starts with the command line  *)
(* parsed and no subcommand given.                                         *)

\* The largest --depth value of a request
MaxDepthArg == 2

FilterExtArgs ==
    {
      None, Some(<<"r","s">>), Some(<<".","R","S",","," ","t","x","t">>),
      Some(<< >>) }

FilterNameArgs ==
    {
      None, Some(<<"*",".","r","s">>), Some(<<"[">>), Some(<<"a","*">>),
      Some(<<"?",".","*">>) }

MinSizeArgs ==
    {
      None, Some(<<"1","0","0">>), Some(<<"1","k">>), Some(<<"2","k">>),
      Some(<<"x">>) }

MaxSizeArgs ==
    {
      None, Some(<<"1","0","0">>), Some(<<"1","K">>),
      Some(<<"2"," ","k","b">>), Some(<<"1",".","5",".">>) }

\* --depth requires --tree
DepthArgs(tree) == IF tree THEN {None} \cup {Some(d) : d \in 0..MaxDepthArg} ELSE {None}

\* The [colors.table] section of a config file that sets the four colours
CustomTableColors ==
    [name   |-> Some(<<"r","e","d">>),
     size   |-> Some(<<"g","r","e","e","n">>),
     date   |-> Some(<<"b","l","u","e">>),
     header |-> Some(<<"y","e","l","l","o","w">>)]

\* No config file, one with nothing in it, one that sets the table colours
ConfigFiles ==
    { NoConfig,
      [state |-> "ok", colors |-> EmptyColors],
      [state |-> "ok", colors |-> [EmptyColors EXCEPT !.table = Some(CustomTableColors)]] }

\* Requests that vary the traversal and what the platform does during it
TravRequests ==
    { [cli |-> [DefaultCli EXCEPT !.all = a, !.tree = t, !.depth = d,
                                  !.compact = c, !.json = j],
       env |-> [DefaultEnv EXCEPT !.rev = r, !.meta_fail = mf, !.read_fail = rf]] :
        a \in BOOLEAN, t \in BOOLEAN, d \in DepthArgs(TRUE), c \in BOOLEAN,
        j \in BOOLEAN, r \in BOOLEAN, mf \in {{}, {4}, {6}},
        rf \in {{}, {1}, {4}, {8}} }

\* Requests that vary the four filters, on the flat listing and on the
\* whole tree
FilterRequests ==
    { [cli |-> [DefaultCli EXCEPT !.all = t, !.tree = t, !.filter_ext = fe,
                                  !.filter_name = fn, !.min_size = mn,
                                  !.max_size = mx],
       env |-> DefaultEnv] :
        t \in BOOLEAN, fe \in FilterExtArgs, fn \in FilterNameArgs,
        mn \in MinSizeArgs, mx \in MaxSizeArgs }

\* Requests that vary the sort key
SortRequests ==
    { [cli |-> [DefaultCli EXCEPT !.sort_by = k, !.all = a, !.tree = t,
                                  !.filter_ext = fe, !.json = j],
       env |-> [DefaultEnv EXCEPT !.rev = r]] :
        k \in {"name", "size", "date"}, a \in BOOLEAN, t \in BOOLEAN,
        fe \in {None, Some(<<"r","s">>)}, j \in BOOLEAN, r \in BOOLEAN }

\* Requests that vary the output format and its destination
RenderRequests ==
    { [cli |-> [DefaultCli EXCEPT !.json = j, !.json_pretty = jp, !.format = f,
                                  !.compact = c, !.no_color = nc, !.columns = co,
                                  !.output_file = o],
       env |-> [DefaultEnv EXCEPT !.config = cf, !.create_fail = fl[1],
                                  !.write_fail = fl[2]]] :
        j \in BOOLEAN, jp \in BOOLEAN, f \in {"table", "json", "json-pretty"},
        c \in BOOLEAN, nc \in BOOLEAN,
        co \in {None, Some(<<"n","a","m","e",",","s","i","z","e">>)},
        o \in {None, Some(<<"o","u","t">>)}, cf \in ConfigFiles,
        fl \in {<<FALSE, FALSE>>, <<TRUE, FALSE>>, <<FALSE, TRUE>>} }

\* Requests that validation refuses or barely lets through, with the
\* output sent to standard output and to a file
RangeRequests ==
    { [cli |-> [DefaultCli EXCEPT !.filter_name = fn, !.min_size = mn,
                                  !.max_size = mx, !.output_file = o, !.json = j],
       env |-> DefaultEnv] :
        fn \in {None, Some(<<"[">>), Some(<<"*">>)},
        mn \in {None, Some(<<"1",".","5","k">>), Some(<<"k">>)},
        mx \in {None, Some(<<"1","5","3","6">>), Some(<<"1","5","3","5">>), Some(<<"1","k","i","b">>)},
        o \in {None, Some(<<"o","u","t">>)}, j \in BOOLEAN }

\* The nodes left out of Fs to get root/{a.rs, d/{b.rs, e/{a.rs}}}, and to
\* get an empty root
TreeShapes == {{3, 5, 7, 9, 11}, {2, 3, 4, 5}}

\* Requests that vary the shape of the tree under the root
ShapeRequests ==
    { [cli |-> [DefaultCli EXCEPT !.all = a, !.tree = t, !.depth = d, !.json = j],
       env |-> [DefaultEnv EXCEPT !.absent = ab, !.rev = r, !.read_fail = rf]] :
        a \in BOOLEAN, t \in BOOLEAN, d \in DepthArgs(TRUE), j \in BOOLEAN,
        ab \in TreeShapes, r \in BOOLEAN, rf \in {{}, {1}} }

\* The --columns values: none, empty, names of columns, no such names
ColumnArgs ==
    { None, Some(<< >>), Some(<<"n","a","m","e",",","s","i","z","e">>),
      Some(<<"b","o","g","u","s">>) }

\* Requests that vary the --columns value
ColumnRequests ==
    { [cli |-> [DefaultCli EXCEPT !.columns = co, !.compact = c, !.no_color = nc,
                                  !.json = j, !.all = a],
       env |-> DefaultEnv] :
        co \in ColumnArgs, c \in BOOLEAN, nc \in BOOLEAN, j \in BOOLEAN,
        a \in BOOLEAN }

Requests ==
    {q \in TravRequests \cup ShapeRequests : q.cli.tree \/ q.cli.depth = None}
        \cup FilterRequests \cup SortRequests \cup RenderRequests
        \cup RangeRequests \cup ColumnRequests

Init ==
    /\ SizeIdle
    /\ ExtIdle
    /\ ParIdle
    /\ ThmIdle
    /\ ColIdle
    /\ CmdIdle
    /\ \E q \in Requests : cli = q.cli /\ env = q.env
    /\ pc = "start"
    /\ theme = None
    /\ cfg = None
    /\ stack = << >>
    /\ files = << >>
    /\ read_log = << >>
    /\ traversed = << >>
    /\ filtered = << >>
    /\ output = None
    /\ stdout = None
    /\ out_file = None
    /\ stderr = << >>
    /\ exit_code = None

\* cli.path, or "." which is the root of the file system here
resolve_path(c) == IF IsSome(c.path) THEN Unwrap(c.path) ELSE Root

\* main up to load_files: load_theme, then FilterConfig::from_cli, whose
\* error is printed, after the warning of parse_size if it comes from
\* there, and ends the process with status 2
Validate ==
    /\ pc = "start"
    /\ theme' = Some(load_theme(env))
    /\ LET r == from_cli(cli)
       IN  IF IsOk(r)
           THEN /\ cfg' = Some(r[2])
                /\ pc' = "load"
                /\ UNCHANGED <<stderr, exit_code>>
           ELSE /\ stderr' = Append(stderr \o from_cli_warnings(cli), <<"Error", r[2]>>)
                /\ exit_code' = Some(2)
                /\ pc' = "done"
                /\ UNCHANGED cfg
    /\ UNCHANGED <<cli, env, stack, files, read_log, traversed, filtered,
                   output, stdout, out_file, unit_vars>>

\* load_files without --tree: get_files.  Its error is printed and main
\* returns.
LoadFlat ==
    /\ pc = "load"
    /\ ~cli.tree
    /\ read_log' = Append(read_log, resolve_path(cli))
    /\ LET r == get_files(env, resolve_path(cli), cli.all)
       IN  IF IsSome(r)
           THEN /\ files' = Unwrap(r)
                /\ traversed' = Unwrap(r)
                /\ pc' = "filter"
                /\ UNCHANGED <<stderr, exit_code>>
           ELSE /\ stderr' = Append(stderr, <<"Failed to read directory">>)
                /\ exit_code' = Some(0)
                /\ pc' = "done"
                /\ UNCHANGED <<files, traversed>>
    /\ UNCHANGED <<cli, env, theme, cfg, stack, filtered, output, stdout,
                   out_file, unit_vars>>

\* load_files with --tree: get_files_recursive calls
\* collect_files_recursive(path, include_hidden, max_depth, 0, &mut files)
LoadTree ==
    /\ pc = "load"
    /\ cli.tree
    /\ stack' = <<[path |-> resolve_path(cli), current_depth |-> 0,
                   entries |-> None, next |-> 1]>>
    /\ files' = << >>
    /\ pc' = "tree"
    /\ UNCHANGED <<cli, env, theme, cfg, read_log, traversed, filtered, output,
                   stdout, out_file, stderr, exit_code, unit_vars>>

\* if let Some(max) = max_depth { if current_depth > max { return Ok(()) } },
\* with the test made current_depth >= max
exceeds_depth_or_equal(current_depth, max_depth) ==
    IsSome(max_depth) /\ current_depth >= Unwrap(max_depth)

\* if let Some(max) = max_depth { if current_depth > max { return Ok(()) } }
exceeds_depth(current_depth, max_depth) ==
    IsSome(max_depth) /\ current_depth > Unwrap(max_depth)

\* The recursion guard with no directory ever entered
may_recurse_never(current_depth, max_depth) == FALSE

\* The recursion guard one level short of the bound
may_recurse_one_less(current_depth, max_depth) ==
    IF IsSome(max_depth) THEN current_depth + 1 < Unwrap(max_depth) ELSE TRUE

\* current_depth < max_depth.unwrap_or(usize::MAX)
may_recurse(current_depth, max_depth) ==
    IF IsSome(max_depth) THEN current_depth < Unwrap(max_depth) ELSE TRUE

\* The innermost call returns, its error handed on by every caller
tree_return_propagate(ok) ==
    IF Len(stack) > 1 /\ ok
    THEN /\ stack' = SubSeq(stack, 1, Len(stack) - 1)
         /\ UNCHANGED <<pc, traversed, stderr, exit_code>>
    ELSE /\ stack' = << >>
         /\ IF ok
            THEN /\ traversed' = files'
                 /\ pc' = "filter"
                 /\ UNCHANGED <<stderr, exit_code>>
            ELSE /\ stderr' = Append(stderr, <<"Failed to read directory">>)
                 /\ exit_code' = Some(0)
                 /\ pc' = "done"
                 /\ UNCHANGED traversed

\* The innermost call returns: to its caller, which drops the result, or to
\* get_files_recursive and main
tree_return(ok) ==
    IF Len(stack) > 1
    THEN /\ stack' = SubSeq(stack, 1, Len(stack) - 1)
         /\ UNCHANGED <<pc, traversed, stderr, exit_code>>
    ELSE /\ stack' = << >>
         /\ IF ok
            THEN /\ traversed' = files'
                 /\ pc' = "filter"
                 /\ UNCHANGED <<stderr, exit_code>>
            ELSE /\ stderr' = Append(stderr, <<"Failed to read directory">>)
                 /\ exit_code' = Some(0)
                 /\ pc' = "done"
                 /\ UNCHANGED traversed

\* collect_files_recursive from its entry to the loop: the depth test, the
\* read_dir, the hidden-file filter, the records appended to files
TreeCall ==
    /\ pc = "tree"
    /\ stack # << >>
    /\ LET top == stack[Len(stack)]
       IN  /\ top.entries = None
           /\ IF exceeds_depth(top.current_depth, cli.depth)
              THEN /\ UNCHANGED <<files, read_log>>
                   /\ tree_return(TRUE)
              ELSE /\ read_log' = Append(read_log, top.path)
                   /\ IF ~IsSome(read_dir(env, top.path))
                      THEN /\ UNCHANGED files
                           /\ tree_return(FALSE)
                      ELSE LET entries == hidden_filter(Unwrap(read_dir(env, top.path)),
                                                        cli.all)
                           IN  /\ files' = files \o map_entries(env, entries)
                               /\ stack' = [stack EXCEPT ![Len(stack)].entries =
                                                             Some(entries)]
                               /\ UNCHANGED <<pc, traversed, stderr, exit_code>>
    /\ UNCHANGED <<cli, env, theme, cfg, filtered, output, stdout, out_file,
                   unit_vars>>

\* The test of the loop with a directory entered only when its own record
\* passes the filters of the run
is_dir_entry_passing(e, n) ==
    /\ IsSome(Metadata(e, n))
    /\ Unwrap(Metadata(e, n)).kind = "dir"
    /\ passes_filters(Unwrap(map_data(e, n)), Unwrap(cfg))

\* The test of the loop with the symbolic links entered as well
is_dir_entry_following(e, n) ==
    /\ IsSome(Metadata(e, n))
    /\ Unwrap(Metadata(e, n)).kind \in {"dir", "symlink"}

\* if let Ok(metadata) = entry.metadata() { if metadata.is_dir() { .. } }
is_dir_entry(e, n) ==
    /\ IsSome(Metadata(e, n))
    /\ Unwrap(Metadata(e, n)).kind = "dir"

\* One turn of the loop over the entries: a directory whose metadata can be
\* read is entered with current_depth + 1
TreeLoop ==
    /\ pc = "tree"
    /\ stack # << >>
    /\ LET top == stack[Len(stack)]
       IN  /\ top.entries # None
           /\ may_recurse(top.current_depth, cli.depth)
           /\ top.next <= Len(Unwrap(top.entries))
           /\ LET n    == Unwrap(top.entries)[top.next]
                  rest == [stack EXCEPT ![Len(stack)].next = top.next + 1]
              IN  IF is_dir_entry(env, n)
                  THEN stack' = Append(rest, [path |-> n,
                                              current_depth |-> top.current_depth + 1,
                                              entries |-> None, next |-> 1])
                  ELSE stack' = rest
    /\ UNCHANGED <<pc, cli, env, theme, cfg, files, read_log, traversed, filtered,
                   output, stdout, out_file, stderr, exit_code, unit_vars>>

\* The loop is over, or was not to be run: Ok(())
TreeReturn ==
    /\ pc = "tree"
    /\ stack # << >>
    /\ LET top == stack[Len(stack)]
       IN  /\ top.entries # None
           /\ \/ ~may_recurse(top.current_depth, cli.depth)
              \/ top.next > Len(Unwrap(top.entries))
    /\ UNCHANGED files
    /\ tree_return(TRUE)
    /\ UNCHANGED <<cli, env, theme, cfg, read_log, filtered, output, stdout,
                   out_file, unit_vars>>

\* files.retain(|f| passes_filters(f, &filter_cfg))
Filter ==
    /\ pc = "filter"
    /\ files' = retain(files, Unwrap(cfg))
    /\ filtered' = files'
    /\ pc' = "sort"
    /\ UNCHANGED <<cli, env, theme, cfg, stack, read_log, traversed, output,
                   stdout, out_file, stderr, exit_code, unit_vars>>

\* match cli.sort_by { .. files.sort_by(..) }
Sort ==
    /\ pc = "sort"
    /\ files' = sort(files, cli.sort_by)
    /\ pc' = "render"
    /\ UNCHANGED <<cli, env, theme, cfg, stack, read_log, traversed, filtered,
                   output, stdout, out_file, stderr, exit_code, unit_vars>>

\* let output = match effective_format { .. }
Render ==
    /\ pc = "render"
    /\ output' = Some(render(cli, files, Unwrap(theme)))
    /\ pc' = "write"
    /\ UNCHANGED <<cli, env, theme, cfg, stack, files, read_log, traversed,
                   filtered, stdout, out_file, stderr, exit_code, unit_vars>>

\* writeln!(file, "{}", output) and println!("{}", output): the payload and
\* a line end
line_of(payload) == [text |-> payload, end |-> "\n"]

\* The output goes to the --out file or to standard output, and main
\* returns.  A file that was created and could not be written is left
\* with no content.
Write ==
    /\ pc = "write"
    /\ IF IsSome(cli.output_file)
       THEN IF env.create_fail
            THEN /\ stderr' = Append(stderr, <<"Failed to create output file">>)
                 /\ UNCHANGED <<out_file, stdout>>
            ELSE IF env.write_fail
            THEN /\ out_file' = Some(None)
                 /\ stderr' = Append(stderr, <<"Failed to write to file">>)
                 /\ UNCHANGED stdout
            ELSE /\ out_file' = Some(Some(line_of(Unwrap(output))))
                 /\ UNCHANGED <<stdout, stderr>>
       ELSE /\ stdout' = Some(line_of(Unwrap(output)))
            /\ UNCHANGED <<out_file, stderr>>
    /\ exit_code' = Some(0)
    /\ pc' = "done"
    /\ UNCHANGED <<cli, env, theme, cfg, stack, files, read_log, traversed,
                   filtered, output, unit_vars>>

Next ==
    \/ Validate
    \/ LoadFlat
    \/ LoadTree
    \/ TreeCall
    \/ TreeLoop
    \/ TreeReturn
    \/ Filter
    \/ Sort
    \/ Render
    \/ Write

Spec == Init /\ [][Next]_vars

\* The tree traversal of a run on its own, from the command line to the
\* return of get_files_recursive
TreeInit ==
    /\ Init
    /\ cli.tree
    /\ ~cli.compact
    /\ ~cli.json
    /\ [cli |-> cli, env |-> env] \in TravRequests \cup ShapeRequests

TreeNext == Validate \/ LoadTree \/ TreeCall \/ TreeLoop \/ TreeReturn

\* The process executes the traversal: a step that can be taken is taken
SpecTree == TreeInit /\ [][TreeNext]_vars /\ WF_vars(TreeNext)

----------------------------------------------------------------------------
(* One directory level on its own: entries.par_iter().map(map_data)        *)
(* .filter_map(Result::ok).collect().  The worker threads take the entries *)
(* in any order, at most MaxWorkers of them at a time; collect puts the    *)
(* results together in the order of the entries.                           *)

\* The number of worker threads
MaxWorkers == 2

Directories == {n \in Nodes : Fs[n].kind = "dir"}

\* The entries the level is made of: read_dir and the hidden-file filter
ParEntries == hidden_filter(Unwrap(read_dir(par_env, par_dir)), par_hidden)

ParInit ==
    /\ MainIdle
    /\ SizeIdle
    /\ ExtIdle
    /\ ThmIdle
    /\ ColIdle
    /\ CmdIdle
    /\ par_dir \in Directories
    /\ par_hidden \in BOOLEAN
    /\ \E r \in BOOLEAN, mf \in SUBSET {n \in Nodes : Fs[n].parent = par_dir} :
          par_env = [DefaultEnv EXCEPT !.rev = r, !.meta_fail = mf]
    /\ par_slots = [i \in 1..Len(ParEntries) |-> "todo"]
    /\ par_out = [i \in 1..Len(ParEntries) |-> None]
    /\ par_pc = "map"
    /\ par_files = None
    /\ par_payload = None

\* collect that gives nothing when one extraction failed
collect_all_or_nothing(out) ==
    IF \E i \in 1..Len(out) : ~IsSome(out[i]) THEN << >>
    ELSE [i \in 1..Len(out) |-> Unwrap(out[i])]

\* .filter_map(Result::ok).collect(): the Ok results, in entry order
collect_ok(out) ==
    LET ok == SelectSeq([i \in 1..Len(out) |-> i], LAMBDA i : IsSome(out[i]))
    IN  [i \in 1..Len(ok) |-> Unwrap(out[ok[i]])]

\* A worker thread takes an entry
ParStart ==
    /\ par_pc = "map"
    /\ Cardinality({i \in 1..Len(par_slots) : par_slots[i] = "running"}) < MaxWorkers
    /\ \E i \in 1..Len(par_slots) :
          /\ par_slots[i] = "todo"
          /\ par_slots' = [par_slots EXCEPT ![i] = "running"]
    /\ UNCHANGED <<par_dir, par_hidden, par_env, par_out, par_pc, par_files, par_payload,
                   main_vars, size_vars, ext_vars, thm_vars, col_vars,
                   cmd_vars>>

\* A worker thread ends map_data on its entry
ParFinish ==
    /\ par_pc = "map"
    /\ \E i \in 1..Len(par_slots) :
          /\ par_slots[i] = "running"
          /\ par_slots' = [par_slots EXCEPT ![i] = "done"]
          /\ par_out' = [par_out EXCEPT ![i] = map_data(par_env, ParEntries[i])]
    /\ UNCHANGED <<par_dir, par_hidden, par_env, par_pc, par_files, par_payload,
                   main_vars, size_vars, ext_vars, thm_vars, col_vars,
                   cmd_vars>>

\* Every entry is done: the records are collected and Ok(files) returned
ParCollect ==
    /\ par_pc = "map"
    /\ \A i \in 1..Len(par_slots) : par_slots[i] = "done"
    /\ par_files' = Some(collect_ok(par_out))
    /\ par_pc' = "ret"
    /\ UNCHANGED <<par_dir, par_hidden, par_env, par_slots, par_out, par_payload,
                   main_vars, size_vars, ext_vars, thm_vars, col_vars,
                   cmd_vars>>

\* The command lines of a flat listing sorted by name: the table, the
\* compact table, JSON
ParClis ==
    { DefaultCli, [DefaultCli EXCEPT !.compact = TRUE], [DefaultCli EXCEPT !.json = TRUE] }

\* main on the Ok(files) of the flat listing: no filter is set, the records
\* are sorted by name and rendered
ParRender ==
    /\ par_pc = "ret"
    /\ \E c \in ParClis :
          par_payload' =
              Some([cli     |-> c,
                    payload |-> render(c, sort(retain(Unwrap(par_files), from_cli(c)[2]),
                                               c.sort_by),
                                       load_theme(par_env))])
    /\ par_pc' = "out"
    /\ UNCHANGED <<par_dir, par_hidden, par_env, par_slots, par_out, par_files,
                   main_vars, size_vars, ext_vars, thm_vars, col_vars,
                   cmd_vars>>

ParNext == ParStart \/ ParFinish \/ ParCollect \/ ParRender

SpecPar == ParInit /\ [][ParNext]_vars

----------------------------------------------------------------------------
(* The theme loader on its own: load_theme over config files *)

\* At most this many extension mappings in a config file
MaxExtMappings == 2

\* Colour names as a config file may write them: valid, valid but for the
\* letter case, unknown, empty
ColorTexts ==
    { <<"r","e","d">>,
      <<"R","e","d">>,
      <<"R","E","D">>,
      <<"b","r","i","g","h","t","_","c","y","a","n">>,
      <<"B","r","i","g","h","t","_","C","y","a","n">>,
      <<"p","u","r","p","l","e">>,
      << >> }

\* The extensions a config file maps: one the default map has, one it lacks
ThemeExtKeys == { <<"r","s">>, <<"z","z">> }

FileTypeSections ==
    {None} \cup
    { Some([file |-> None, directory |-> d, symlink |-> None]) :
        d \in {None} \cup {Some(t) : t \in ColorTexts} }

TableSections ==
    {None} \cup
    { Some([name |-> n, size |-> None, date |-> None, header |-> None]) :
        n \in {None} \cup {Some(t) : t \in ColorTexts} }

ExtensionSections ==
    {None} \cup
    UNION { { Some(m) : m \in [K -> ColorTexts] } :
              K \in {K \in SUBSET ThemeExtKeys : Cardinality(K) <= MaxExtMappings} }

\* The keys written directly under [colors]: none, or directory with a
\* valid or an unknown colour name
PlainSections ==
    { [NoPlainKeys EXCEPT !.directory = d] :
        d \in {None, Some(<<"r","e","d">>), Some(<<"p","u","r","p","l","e">>)} }

ConfigStates == {"no_dir", "absent", "unreadable", "syntax", "ok"}

ThemeInit ==
    /\ MainIdle
    /\ SizeIdle
    /\ ExtIdle
    /\ ParIdle
    /\ ColIdle
    /\ CmdIdle
    /\ thm_cfg \in [state  : ConfigStates,
                    colors : [file_types : FileTypeSections,
                              extensions : ExtensionSections,
                              table      : TableSections,
                              plain      : PlainSections]]
    /\ thm_pc = "call"
    /\ thm_res = None

\* let theme = load_theme();
LoadTheme ==
    /\ thm_pc = "call"
    /\ thm_res' = Some(load_theme([config |-> thm_cfg]))
    /\ thm_pc' = "ret"
    /\ UNCHANGED <<thm_cfg, main_vars, size_vars, ext_vars, par_vars, col_vars,
                   cmd_vars>>

ThemeNext == LoadTheme

SpecTheme == ThemeInit /\ [][ThemeNext]_vars

----------------------------------------------------------------------------
(* get_file_color on its own *)

\* A [colors.file_types] section that sets the three colours
CustomFileTypeColors ==
    [file      |-> Some(<<"w","h","i","t","e">>),
     directory |-> Some(<<"g","r","e","e","n">>),
     symlink   |-> Some(<<"b","l","a","c","k">>)]

\* The themes: the default one, and those of config files that set the
\* file-type colours, map zz and remap rs
ColorThemes ==
    { load_theme([config |-> c]) :
        c \in { NoConfig,
                [state |-> "ok",
                 colors |-> [EmptyColors EXCEPT !.file_types = Some(CustomFileTypeColors)]],
                [state |-> "ok",
                 colors |-> [EmptyColors EXCEPT
                                !.file_types = Some(CustomFileTypeColors),
                                !.extensions = Some([e \in ThemeExtKeys |->
                                                        <<"b","l","u","e">>])]] } }

FileTypes == {"File", "Directory", "Symlink"}

\* File names: with an extension the themes map, in either case, with
\* several dots, with none, with a leading or a trailing dot, with an
\* extension no theme maps, empty
ColorFileNames ==
    { <<"a",".","r","s">>,
      <<"A",".","R","S">>,
      <<"a",".","t","a","r",".","G","Z">>,
      <<"M","a","k","e","f","i","l","e">>,
      <<".","r","s">>,
      <<"a",".">>,
      <<"a",".","z","z">>,
      <<"r","s">>,
      <<"a",".","r","s",".","b","a","k">>,
      <<"x",".","T","x","t">>,
      << >>,
      <<"z","z",".","b">> }

ColorInit ==
    /\ MainIdle
    /\ SizeIdle
    /\ ExtIdle
    /\ ParIdle
    /\ ThmIdle
    /\ CmdIdle
    /\ col_theme \in ColorThemes
    /\ col_type \in FileTypes
    /\ col_name \in ColorFileNames
    /\ col_pc = "call"
    /\ col_res = None

GetFileColor ==
    /\ col_pc = "call"
    /\ col_res' = Some(get_file_color(col_type, col_name, col_theme))
    /\ col_pc' = "ret"
    /\ UNCHANGED <<col_theme, col_type, col_name, main_vars, size_vars, ext_vars,
                   par_vars, thm_vars, cmd_vars>>

ColorNext == GetFileColor

SpecColor == ColorInit /\ [][ColorNext]_vars

----------------------------------------------------------------------------
(* Runs of the program one after the other on the same config directory:   *)
(* theme init, theme path, theme reset and listings.  cmd_disk.dir says    *)
(* whether the config directory can be determined, cmd_disk.file is None   *)
(* or the content of config.toml as toml::from_str reads it.  cmd_log      *)
(* holds the last two runs.                                                *)

\* The extension mappings of the sample config, as the pairs it writes
SampleExtensionPairs ==
    << <<<<"r","s">>, <<"y","e","l","l","o","w">>>>,
       <<<<"p","y">>, <<"b","l","u","e">>>>,
       <<<<"j","s">>, <<"y","e","l","l","o","w">>>>,
       <<<<"t","s">>, <<"b","l","u","e">>>>,
       <<<<"g","o">>, <<"b","r","i","g","h","t","_","c","y","a","n">>>>,
       <<<<"m","d">>, <<"c","y","a","n">>>>,
       <<<<"j","s","o","n">>, <<"g","r","e","e","n">>>>,
       <<<<"t","o","m","l">>, <<"r","e","d">>>>,
       <<<<"y","a","m","l">>, <<"m","a","g","e","n","t","a">>>>,
       <<<<"y","m","l">>, <<"m","a","g","e","n","t","a">>>> >>

\* The text create_sample_config writes, as a config file
SampleConfig ==
    [state  |-> "ok",
     colors |-> [file_types |-> None,
                 plain      |-> [file      |-> Some(<<"b","r","i","g","h","t","_","c","y","a","n">>),
                                 directory |-> Some(<<"b","r","i","g","h","t","_","b","l","u","e">>),
                                 symlink   |-> Some(<<"b","r","i","g","h","t","_","m","a","g","e","n","t","a">>)],
                 table      |-> Some([name   |-> Some(<<"b","r","i","g","h","t","_","c","y","a","n">>),
                                      size   |-> Some(<<"b","r","i","g","h","t","_","m","a","g","e","n","t","a">>),
                                      date   |-> Some(<<"b","r","i","g","h","t","_","y","e","l","l","o","w">>),
                                      header |-> Some(<<"b","r","i","g","h","t","_","g","r","e","e","n">>)]),
                 extensions |-> Some([e \in {SampleExtensionPairs[i][1] :
                                                i \in 1..Len(SampleExtensionPairs)} |->
                                        SampleExtensionPairs[
                                            CHOOSE i \in 1..Len(SampleExtensionPairs) :
                                                SampleExtensionPairs[i][1] = e][2]])]]

\* A config file the user wrote
UserConfig ==
    [state |-> "ok", colors |-> [EmptyColors EXCEPT !.table = Some(CustomTableColors)]]

\* What a write that failed may leave: an empty file, or one cut off in the
\* middle of a line
EmptyFile == [state |-> "ok", colors |-> EmptyColors]

CutFile == [state |-> "syntax", colors |-> EmptyColors]

\* What may go wrong in create_sample_config: nothing, create_dir_all, or
\* fs::write, which then leaves no file, an empty one or a cut one
InitFaults == {"none", "mkdir", "write_none", "write_empty", "write_cut"}

\* create_sample_config with the sample written over an existing file
create_sample_config_overwrite(disk, fault) ==
    IF ~disk.dir THEN [disk |-> disk, res |-> Err("Could not determine config directory")]
    ELSE IF fault = "mkdir" THEN [disk |-> disk, res |-> Err("create_dir_all")]
    ELSE IF fault = "none"
         THEN [disk |-> [disk EXCEPT !.file = Some(SampleConfig)], res |-> Ok("path")]
         ELSE [disk |-> [disk EXCEPT !.file =
                            IF fault = "write_none" THEN None
                            ELSE IF fault = "write_empty" THEN Some(EmptyFile)
                            ELSE Some(CutFile)],
               res  |-> Err("write")]

\* create_sample_config: the disk it leaves and its result
create_sample_config(disk, fault) ==
    IF ~disk.dir THEN [disk |-> disk, res |-> Err("Could not determine config directory")]
    ELSE IF fault = "mkdir" THEN [disk |-> disk, res |-> Err("create_dir_all")]
    ELSE IF IsSome(disk.file) THEN [disk |-> disk, res |-> Ok("path")]
    ELSE IF fault = "none"
         THEN [disk |-> [disk EXCEPT !.file = Some(SampleConfig)], res |-> Ok("path")]
         ELSE [disk |-> [disk EXCEPT !.file =
                            IF fault = "write_none" THEN None
                            ELSE IF fault = "write_empty" THEN Some(EmptyFile)
                            ELSE Some(CutFile)],
               res  |-> Err("write")]

\* The config file as load_theme_from_config finds it
config_on(disk, readable) ==
    IF ~disk.dir THEN [state |-> "no_dir", colors |-> EmptyColors]
    ELSE IF ~IsSome(disk.file) THEN NoConfig
    ELSE IF ~readable THEN [Unwrap(disk.file) EXCEPT !.state = "unreadable"]
    ELSE Unwrap(disk.file)

\* The log with the run r added, the last two runs kept
logged(log, r) == IF Len(log) < 2 THEN Append(log, r) ELSE <<log[2], r>>

\* What a run leaves in the log
Run(cmd, before, after, out, err, th) ==
    [cmd |-> cmd, before |-> before, after |-> after, out |-> out, err |-> err,
     theme |-> th]

CmdInit ==
    /\ MainIdle
    /\ SizeIdle
    /\ ExtIdle
    /\ ParIdle
    /\ ThmIdle
    /\ ColIdle
    /\ cmd_disk \in [dir : BOOLEAN, file : {None, Some(UserConfig), Some(SampleConfig)}]
    /\ cmd_log = << >>

\* bestls theme init [--show]
ThemeInitCommand ==
    \E fault \in InitFaults, show \in BOOLEAN, readable \in BOOLEAN :
        LET r == create_sample_config(cmd_disk, fault)
        IN  /\ cmd_disk' = r.disk
            /\ cmd_log' = logged(cmd_log,
                  IF IsOk(r.res)
                  THEN Run("init", cmd_disk, r.disk,
                           <<"Theme config created at">>
                               \o (IF show /\ readable THEN <<Unwrap(r.disk.file)>>
                                   ELSE << >>),
                           IF show /\ ~readable THEN <<"Error reading config">> ELSE << >>,
                           None)
                  ELSE Run("init", cmd_disk, r.disk, << >>, <<"Error creating config">>,
                           None))
            /\ UNCHANGED <<main_vars, size_vars, ext_vars, par_vars, thm_vars, col_vars>>

\* bestls theme path
ThemePathCommand ==
    /\ cmd_log' = logged(cmd_log,
          IF cmd_disk.dir
          THEN Run("path", cmd_disk, cmd_disk, <<"bestls/config.toml">>, << >>, None)
          ELSE Run("path", cmd_disk, cmd_disk, << >>,
                   <<"Could not determine config directory">>, None))
    /\ UNCHANGED <<cmd_disk, main_vars, size_vars, ext_vars, par_vars, thm_vars,
                   col_vars>>

\* bestls theme reset
ThemeResetCommand ==
    \E removable \in BOOLEAN :
        /\ cmd_disk' = IF cmd_disk.dir /\ IsSome(cmd_disk.file) /\ removable
                       THEN [cmd_disk EXCEPT !.file = None]
                       ELSE cmd_disk
        /\ cmd_log' = logged(cmd_log,
              IF ~cmd_disk.dir
              THEN Run("reset", cmd_disk, cmd_disk', << >>,
                       <<"Could not determine config directory">>, None)
              ELSE IF ~IsSome(cmd_disk.file)
              THEN Run("reset", cmd_disk, cmd_disk', <<"Theme already at default">>,
                       << >>, None)
              ELSE IF removable
              THEN Run("reset", cmd_disk, cmd_disk', <<"Theme reset to default">>,
                       << >>, None)
              ELSE Run("reset", cmd_disk, cmd_disk', << >>, <<"Error removing config">>,
                       None))
        /\ UNCHANGED <<main_vars, size_vars, ext_vars, par_vars, thm_vars, col_vars>>

\* bestls [options] [path]: the listing, which loads the theme
ListingCommand ==
    \E readable \in BOOLEAN :
        /\ cmd_log' = logged(cmd_log,
              Run("list", cmd_disk, cmd_disk, << >>, << >>,
                  Some(load_theme([config |-> config_on(cmd_disk, readable)]))))
        /\ UNCHANGED <<cmd_disk, main_vars, size_vars, ext_vars, par_vars, thm_vars,
                       col_vars>>

CmdNext == ThemeInitCommand \/ ThemePathCommand \/ ThemeResetCommand \/ ListingCommand

SpecCmd == CmdInit /\ [][CmdNext]_vars

----------------------------------------------------------------------------
(* What the size grammar is said to be, read off the two parts of the      *)
(* argument and not through parse_size.                                    *)

\* A well-formed real: an optional sign, then digits with at most one '.'
\* among them, at least one digit.
WellFormedReal(t) ==
    LET body == IF t # << >> /\ Head(t) \in {"+", "-"} THEN Tail(t) ELSE t
        dots == {i \in 1..Len(body) : body[i] = "."}
    IN  /\ Cardinality(dots) <= 1
        /\ \A i \in (1..Len(body)) \ dots : body[i] \in Range(Digits)
        /\ Len(body) > Cardinality(dots)

NonNegativeReal(t) == WellFormedReal(t) /\ Head(t) # "-"

\* The accepted unit tokens, in any letter case, with the base-2 logarithm
\* of the multiplier of each; None for any other text.
AcceptedUnit(u) ==
    LET up == [i \in 1..Len(u) |-> IF u[i] \in Range(LowerLetters)
                                   THEN UpperLetters[IndexOf(u[i], LowerLetters)]
                                   ELSE u[i]]
    IN  IF up \in {<< >>, <<"B">>} THEN Some(0)
        ELSE IF up \in {<<"K">>, <<"K","B">>} THEN Some(10)
        ELSE IF up \in {<<"M">>, <<"M","B">>} THEN Some(20)
        ELSE IF up \in {<<"G">>, <<"G","B">>} THEN Some(30)
        ELSE IF up \in {<<"T">>, <<"T","B">>} THEN Some(40)
        ELSE None

\* floor((int + num / den) * 2^k), as a binary numeral
ExactFloor(d, k) == StripZeros(NatBits(d.int) \o SubSeq(FracBits(d.num, d.den), 1, k))

\* C8: for a well-formed non-negative number followed by an accepted unit,
\* in any letter case and with blanks around, parse_size returns
\* floor(number x multiplier).
C8_ReturnsFloorOfProduct ==
    (/\ size_pc = "ret"
     /\ NonNegativeReal(size_parts.num)
     /\ IsSome(AcceptedUnit(size_parts.unit)))
    => size_res = Some(ExactFloor(Unwrap(ParseDecimal(size_parts.num)),
                                  Unwrap(AcceptedUnit(size_parts.unit))))

\* C9: parse_size returns None exactly when the trimmed argument is empty,
\* or the text before the first alphabetic character (the blanks around it
\* set aside) is not a well-formed real, or the text from the first
\* alphabetic character on is not an accepted unit token; otherwise it
\* returns a u64.
C9_FailsExactlyOnBadInput ==
    size_pc = "ret" =>
        /\ size_res = None <=>
              \/ \A i \in 1..Len(size_str) : size_str[i] = " "
              \/ ~WellFormedReal(size_parts.num)
              \/ ~IsSome(AcceptedUnit(size_parts.unit))
        /\ IsSome(size_res) =>
              /\ Len(Unwrap(size_res)) <= U64Bits
              /\ \A i \in 1..Len(Unwrap(size_res)) : Unwrap(size_res)[i] \in {0, 1}
              /\ Unwrap(size_res) = StripZeros(Unwrap(size_res))

\* A number that is well formed before a unit that is not accepted: None.
C9_Witness ==
    /\ size_pc = "ret"
    /\ size_res = None
    /\ size_parts.num = <<"1",".","5">>
    /\ size_parts.unit = <<"K","i","B">>
    /\ size_str # size_parts.num \o size_parts.unit

----------------------------------------------------------------------------
(* What the extension predicate is said to be, read off the texts the      *)
(* --filter-ext value was made of.                                         *)

\* t without its first character when that is a dot
StripOneDot(t) == IF t # << >> /\ t[1] = "." THEN Tail(t) ELSE t

\* t without the dots it begins with
StripDots(t) ==
    LET k == Cardinality({i \in 1..Len(t) : \A j \in 1..i : t[j] = "."})
    IN  SubSeq(t, k + 1, Len(t))

\* The filename ends with "." followed by one of the extensions
EndsWithDotExt(name, listed) ==
    \E i \in 1..Len(listed) : ends_with(name, <<".">> \o listed[i])

\* C10, as stated: the predicate accepts a filename iff the extension list
\* is empty or the filename ends with "." followed by one of the listed
\* extensions, each normalized by trimming whitespace, stripping one leading
\* dot and lower-casing, the filename being compared as it is.
C10_StripsOneLeadingDot ==
    ext_pc = "ret" =>
        Unwrap(ext_res) =
            (\/ ext_items = << >>
             \/ EndsWithDotExt(ext_name,
                    [i \in 1..Len(ext_items) |->
                        to_lowercase(StripOneDot(trim(ext_items[i])))]))

\* C10, amended: the same with every leading dot of a listed extension
\* stripped by the normalization, not only the first.
C10_StripsEveryLeadingDot ==
    ext_pc = "ret" =>
        Unwrap(ext_res) =
            (\/ ext_items = << >>
             \/ EndsWithDotExt(ext_name,
                    [i \in 1..Len(ext_items) |->
                        to_lowercase(StripDots(trim(ext_items[i])))]))

\* A call that accepted a.rs for the listed extension "..rs"
C10_Witness ==
    /\ ext_pc = "ret"
    /\ ext_items = << <<".",".","r","s">> >>
    /\ ext_name = <<"a",".","r","s">>
    /\ ext_res = Some(TRUE)

----------------------------------------------------------------------------
(* What the listing is said to do. *)

\* The name begins with '.'
Hidden(name) == name # << >> /\ name[1] = "."

NamesOf(recs) == [i \in 1..Len(recs) |-> recs[i].name]

\* The number a u64 of at most 30 bits stands for
BitsToNat(b) ==
    LET v[i \in 0..Len(b)] == IF i = 0 THEN 0 ELSE 2 * v[i - 1] + b[i]
    IN  v[Len(b)]

\* The number of times x occurs in s
Count(x, s) == Cardinality({i \in 1..Len(s) : s[i] = x})

\* C1: with include_hidden false no record whose name begins with '.' is in
\* the traversal result (flat, and in tree mode at every depth, while it is
\* built and when it is returned) or in the rendered output; with
\* include_hidden true every entry of every directory that was read, hidden
\* or not, whose metadata could be read is in the traversal result.
C1_HiddenFilePolicy ==
    /\ ~cli.all =>
          /\ \A i \in 1..Len(files) : ~Hidden(files[i].name)
          /\ \A i \in 1..Len(traversed) : ~Hidden(traversed[i].name)
          /\ IsSome(output) =>
                \A i \in 1..Len(payload_names(Unwrap(output))) :
                    ~Hidden(payload_names(Unwrap(output))[i])
    /\ (cli.all /\ pc \in {"filter", "sort", "render", "write", "done"}) =>
          \A k \in 1..Len(read_log) :
              read_log[k] \notin env.read_fail =>
                  \A n \in Nodes :
                      (/\ Fs[n].parent = read_log[k]
                       /\ n \notin env.absent
                       /\ n \notin env.meta_fail) =>
                          \E i \in 1..Len(traversed) :
                              /\ traversed[i].name = Fs[n].name
                              /\ traversed[i].len_bytes = Fs[n].len

\* A finished tree listing without --all that read directory d, where the
\* hidden directory .g is, and printed records
C1_Witness ==
    /\ pc = "done"
    /\ ~cli.all
    /\ cli.tree
    /\ \E k \in 1..Len(read_log) : \E n \in Nodes :
          /\ Fs[n].parent = read_log[k]
          /\ n \notin env.absent
          /\ Hidden(Fs[n].name)
          /\ Fs[n].kind = "dir"
    /\ IsSome(stdout)
    /\ Len(traversed) > 3

\* The request is one validation refuses
InvalidRequest ==
    \/ IsSome(cli.filter_name) /\ ~IsSome(pattern_new(Unwrap(cli.filter_name)))
    \/ IsSome(cli.min_size) /\ ~IsSome(parse_size(Unwrap(cli.min_size)))
    \/ IsSome(cli.max_size) /\ ~IsSome(parse_size(Unwrap(cli.max_size)))
    \/ /\ IsSome(cli.min_size) /\ IsSome(parse_size(Unwrap(cli.min_size)))
       /\ IsSome(cli.max_size) /\ IsSome(parse_size(Unwrap(cli.max_size)))
       /\ U64Less(Unwrap(parse_size(Unwrap(cli.max_size))),
                  Unwrap(parse_size(Unwrap(cli.min_size))))

\* C2: a request with an invalid glob pattern, an unparsable --min-size or
\* --max-size, or a min-size strictly greater than the max-size never has a
\* directory enumerated nor a payload rendered or written to standard
\* output or to the --out file, and when its run has ended the exit code
\* is 2.
C2_InvalidRequestExitsWith2 ==
    InvalidRequest =>
        /\ read_log = << >>
        /\ output = None
        /\ stdout = None
        /\ out_file = None
        /\ pc \in {"start", "done"}
        /\ pc = "done" => exit_code = Some(2)

\* A run ended with code 2 for a min-size above the max-size, the output
\* having been asked into a file
C2_Witness ==
    /\ pc = "done"
    /\ exit_code = Some(2)
    /\ stderr = << <<"Error", "SizeRangeInvalid">> >>
    /\ IsSome(cli.output_file)

\* One predicate of the chain on one record; a disabled predicate accepts
PredicateAccepts(which, f, fc) ==
    IF which = "ext"
    THEN ~IsSome(fc.exts) \/ matches_extension(f.name, Unwrap(fc.exts))
    ELSE IF which = "name"
    THEN ~IsSome(fc.name_pattern) \/ matches_pattern(f.name, Unwrap(fc.name_pattern))
    ELSE IF which = "min"
    THEN ~IsSome(fc.min_size) \/ ~U64Less(NatBits(f.len_bytes), Unwrap(fc.min_size))
    ELSE ~IsSome(fc.max_size) \/ ~U64Less(Unwrap(fc.max_size), NatBits(f.len_bytes))

\* The chain evaluated in the order ord, stopping at the first rejection
RECURSIVE ChainAccepts(_, _, _)
ChainAccepts(ord, f, fc) ==
    IF ord = << >> THEN TRUE
    ELSE IF ~PredicateAccepts(Head(ord), f, fc) THEN FALSE
    ELSE ChainAccepts(Tail(ord), f, fc)

FilterOrders ==
    {o \in [1..4 -> {"ext", "name", "min", "max"}] :
        \A i, j \in 1..4 : o[i] = o[j] => i = j}

\* C3: after the filter step the filtered sequence holds exactly the
\* traversed records that every enabled predicate among extension, name
\* pattern, min-size and max-size accepts, a disabled predicate rejecting
\* nothing, in whatever order the four predicates are evaluated.
C3_KeptIffAllPredicatesAccept ==
    pc = "sort" =>
        \A o \in FilterOrders :
            filtered = SelectSeq(traversed, LAMBDA f : ChainAccepts(o, f, Unwrap(cfg)))

\* A filter step with the four predicates enabled that kept some records
\* and dropped others
C3_Witness ==
    /\ pc = "sort"
    /\ IsSome(Unwrap(cfg).exts)
    /\ IsSome(Unwrap(cfg).name_pattern)
    /\ IsSome(Unwrap(cfg).min_size)
    /\ IsSome(Unwrap(cfg).max_size)
    /\ Len(filtered) > 0
    /\ Len(filtered) < Len(traversed)

\* C4: with min-size m and max-size M the records kept are those the other
\* predicates accept whose size_bytes is at least m and at most M, both
\* bounds included; and a request with m = M passes validation.
C4_SizeBoundsInclusive ==
    /\ (pc = "sort" /\ IsSome(Unwrap(cfg).min_size) /\ IsSome(Unwrap(cfg).max_size)) =>
          LET m == BitsToNat(Unwrap(Unwrap(cfg).min_size))
              M == BitsToNat(Unwrap(Unwrap(cfg).max_size))
          IN  filtered =
                  SelectSeq(traversed,
                            LAMBDA f : /\ PredicateAccepts("ext", f, Unwrap(cfg))
                                       /\ PredicateAccepts("name", f, Unwrap(cfg))
                                       /\ m <= f.len_bytes
                                       /\ f.len_bytes <= M)
    /\ (/\ pc # "start"
        /\ ~(IsSome(cli.filter_name) /\ ~IsSome(pattern_new(Unwrap(cli.filter_name))))
        /\ IsSome(cli.min_size) /\ IsSome(parse_size(Unwrap(cli.min_size)))
        /\ IsSome(cli.max_size) /\ IsSome(parse_size(Unwrap(cli.max_size)))
        /\ parse_size(Unwrap(cli.min_size)) = parse_size(Unwrap(cli.max_size))) =>
          /\ IsSome(cfg)
          /\ exit_code # Some(2)

\* A filter step with m = M = 1024 and no other filter that kept the one
\* record of 1024 bytes
C4_Witness ==
    /\ pc = "sort"
    /\ ~IsSome(Unwrap(cfg).exts)
    /\ ~IsSome(Unwrap(cfg).name_pattern)
    /\ Unwrap(cfg).min_size = Some(NatBits(1024))
    /\ Unwrap(cfg).max_size = Some(NatBits(1024))
    /\ Len(traversed) > 1
    /\ Len(filtered) = 1
    /\ filtered[1].len_bytes = 1024

\* The order of the requested key: a is not after b
KeyLeq(sort_by, a, b) ==
    IF sort_by = "name" THEN StrLeq(a.name, b.name)
    ELSE IF sort_by = "size" THEN a.len_bytes <= b.len_bytes
    ELSE StrLeq(a.modified, b.modified)

\* a and b have the same key
KeyEq(sort_by, a, b) ==
    IF sort_by = "name" THEN a.name = b.name
    ELSE IF sort_by = "size" THEN a.len_bytes = b.len_bytes
    ELSE a.modified = b.modified

\* The run is past the sort step
Sorted == pc \in {"render", "write"} \/ IsSome(output)

C6_SortStable ==
    Sorted =>
        \A i \in 1..Len(filtered) :
            SelectSeq(files, LAMBDA f : KeyEq(cli.sort_by, f, filtered[i]))
                = SelectSeq(filtered, LAMBDA f : KeyEq(cli.sort_by, f, filtered[i]))

\* A sort step that moved records and left two different records of equal
\* key next to each other
C6_Witness ==
    /\ pc = "render"
    /\ files # filtered
    /\ \E i \in 1..(Len(files) - 1) :
          /\ KeyEq(cli.sort_by, files[i], files[i + 1])
          /\ files[i] # files[i + 1]

\* The format the three options are said to select
ClaimedFormat(json, json_pretty, format) ==
    CASE json_pretty -> "json-pretty"
      [] ~json_pretty /\ json -> "json"
      [] ~json_pretty /\ ~json -> format

\* C7: for every combination of --json, --json-pretty and --format,
\* effective_format is json-pretty if --json-pretty is set, otherwise json
\* if --json is set, otherwise the --format value; and the payload that is
\* rendered has that format.
C7_EffectiveFormatPrecedence ==
    /\ effective_format(cli) = ClaimedFormat(cli.json, cli.json_pretty, cli.format)
    /\ IsSome(output) =>
          LET p == Unwrap(output)
              f == ClaimedFormat(cli.json, cli.json_pretty, cli.format)
          IN  /\ f = "json-pretty" => p.kind = "json" /\ p.pretty
              /\ f = "json" => p.kind = "json" /\ ~p.pretty
              /\ f = "table" => p.kind \in {"table", "compact"}

\* A payload rendered as pretty JSON for --json --json-pretty --format table
C7_Witness ==
    /\ IsSome(output)
    /\ cli.json
    /\ cli.json_pretty
    /\ cli.format = "table"
    /\ Unwrap(output).kind = "json"
    /\ Unwrap(output).pretty

----------------------------------------------------------------------------
(* What the tree traversal is said to do. *)

\* The traversal result holds a record for node n
HasRecord(recs, n) ==
    \E i \in 1..Len(recs) : recs[i].name = Fs[n].name /\ recs[i].len_bytes = Fs[n].len

\* The request is --tree --depth 1 on root/{a.rs, d/{b.rs, e/{a.rs}}}: the
\* nodes 2 (a), 4 (d), 6 (b), 8 (e) and 10 (c), where every call succeeds
DepthOneScenario ==
    /\ cli.tree
    /\ cli.depth = Some(1)
    /\ env.absent = {3, 5, 7, 9, 11}
    /\ env.read_fail = {}
    /\ env.meta_fail = {}
    /\ pc \in {"filter", "sort", "render", "write", "done"}

\* C11, as stated: --tree --depth 1 on root/{a, d/{b, e/{c}}} gives a
\* traversal result with records for a, d and b, and with no record for e
\* and none for c.
C11_DepthOneWithoutE ==
    DepthOneScenario =>
        /\ HasRecord(traversed, 2)
        /\ HasRecord(traversed, 4)
        /\ HasRecord(traversed, 6)
        /\ ~HasRecord(traversed, 8)
        /\ ~HasRecord(traversed, 10)

\* C11, amended: the traversal result has records for a, d, b and e, the
\* entries of the root and of the directory d one level below it, and no
\* record for c.
C11_DepthOneWithE ==
    DepthOneScenario =>
        /\ Len(traversed) = 4
        /\ HasRecord(traversed, 2)
        /\ HasRecord(traversed, 4)
        /\ HasRecord(traversed, 6)
        /\ HasRecord(traversed, 8)
        /\ ~HasRecord(traversed, 10)

\* The scenario with its traversal returned: d was read, e was not
C11_Witness ==
    /\ DepthOneScenario
    /\ pc = "filter"
    /\ read_log = <<1, 4>>

\* load_files has returned
Loaded == pc \in {"filter", "sort", "render", "write"} \/ (pc = "done" /\ read_log # << >>)

\* load_files returned an error, which main printed
LoadFailed == \E i \in 1..Len(stderr) : stderr[i] = <<"Failed to read directory">>

\* a and b hold the same records the same number of times
SameMultiset(a, b) ==
    /\ Len(a) = Len(b)
    /\ \A i \in 1..Len(a) : Count(a[i], a) = Count(a[i], b)

\* C12: for every tree and hidden-file policy, tree mode with max_depth = 0
\* returns the multiset of records get_files returns on the same path, and
\* fails exactly when get_files fails.
C12_DepthZeroIsFlat ==
    (cli.tree /\ cli.depth = Some(0) /\ Loaded) =>
        LET flat == get_files(env, resolve_path(cli), cli.all)
        IN  /\ LoadFailed <=> ~IsSome(flat)
            /\ IsSome(flat) => SameMultiset(traversed, Unwrap(flat))
            /\ ~IsSome(flat) => traversed = << >>

\* A tree traversal with max_depth = 0 that returned several records, the
\* directory d among them, and read the root only
C12_Witness ==
    /\ cli.tree
    /\ cli.depth = Some(0)
    /\ pc = "filter"
    /\ read_log = <<1>>
    /\ Len(traversed) > 2
    /\ HasRecord(traversed, 4)

\* The directory n is one the traversal has to read: the root, or a
\* directory entry that passes the hidden-file policy, whose metadata can be
\* read, in a directory that has to be read, is read without error and is
\* above the depth bound
RECURSIVE InScope(_)
InScope(n) ==
    IF n = resolve_path(cli) THEN TRUE
    ELSE /\ Fs[n].parent # 0
         /\ InScope(Fs[n].parent)
         /\ Fs[n].parent \notin env.read_fail
         /\ n \notin env.absent
         /\ n \notin env.meta_fail
         /\ Fs[n].kind = "dir"
         /\ cli.all \/ ~Hidden(Fs[n].name)
         /\ IsSome(cli.depth) => Depth(Fs[n].parent) < Unwrap(cli.depth)

\* The entries of a directory that was read have their records in recs
EntriesRecorded(d, recs) ==
    \A n \in Nodes :
        (/\ Fs[n].parent = d
         /\ n \notin env.absent
         /\ n \notin env.meta_fail
         /\ cli.all \/ ~Hidden(Fs[n].name)) => HasRecord(recs, n)

\* C13: in tree mode the traversal returns an error iff reading the root
\* fails; when reading a descendant fails the traversal succeeds, the
\* records of every directory that was read are in the result, during the
\* traversal and after it, and every directory within the depth bound is
\* enumerated.
C13_OnlyRootFailureIsAnError ==
    /\ (cli.tree /\ Loaded) =>
          /\ LoadFailed <=> resolve_path(cli) \in env.read_fail
          /\ ~LoadFailed =>
                \A n \in Nodes : InScope(n) => \E k \in 1..Len(read_log) : read_log[k] = n
    /\ (cli.tree /\ (pc = "tree" \/ (Loaded /\ ~LoadFailed))) =>
          \A k \in 1..Len(read_log) :
              (/\ read_log[k] \notin env.read_fail
               /\ \/ pc # "tree"
                  \/ k < Len(read_log)
                  \/ stack[Len(stack)].entries # None) =>
                  EntriesRecorded(read_log[k], IF pc = "tree" THEN files ELSE traversed)

\* A traversal with --all that returned after the read of e failed: the
\* directory .g was read after the failure and its entry x.txt is recorded
C13_Witness ==
    /\ cli.tree
    /\ cli.all
    /\ pc = "filter"
    /\ env.read_fail = {8}
    /\ read_log = <<1, 4, 8, 7>>
    /\ HasRecord(traversed, 9)
    /\ HasRecord(traversed, 6)

----------------------------------------------------------------------------
(* What the run is said to end with. *)

\* The --out file could not be created or could not be written
OutFileFailed ==
    \E i \in 1..Len(stderr) :
        stderr[i] \in {<<"Failed to create output file">>, <<"Failed to write to file">>}

\* C14: when the root directory cannot be read, or the --out file cannot be
\* created or written, the process ends with a non-zero exit code, and in
\* the root-failure case no payload is rendered.
C14_IoFailureExitsNonZero ==
    /\ LoadFailed => output = None /\ stdout = None /\ out_file = None
    /\ (pc = "done" /\ (LoadFailed \/ OutFileFailed)) => exit_code # Some(0)

----------------------------------------------------------------------------
(* What the parallel extraction is said to give. *)

\* C15: whatever the order in which the workers take and end the entries of
\* one directory level and whatever entries fail, the listing is not an
\* error and holds exactly one record for each entry that passes the
\* hidden-file policy and whose extraction succeeded, the record that entry
\* gives when nothing fails, and none for any other entry; it is the
\* sequence the extraction of the entries one after the other gives.
C15_ParallelExtractionIsolated ==
    par_pc = "ret" =>
        /\ IsSome(par_files)
        /\ \A n \in Nodes :
              Fs[n].parent = par_dir =>
                  LET at == {i \in 1..Len(Unwrap(par_files)) :
                                Unwrap(par_files)[i].name = Fs[n].name}
                  IN  IF (par_hidden \/ ~Hidden(Fs[n].name)) /\ n \notin par_env.meta_fail
                      THEN /\ Cardinality(at) = 1
                           /\ \A i \in at : Unwrap(par_files)[i] = Unwrap(map_data(DefaultEnv, n))
                      ELSE at = {}
        /\ Len(Unwrap(par_files)) =
              Cardinality({n \in Nodes : /\ Fs[n].parent = par_dir
                                         /\ par_hidden \/ ~Hidden(Fs[n].name)
                                         /\ n \notin par_env.meta_fail})
        /\ Unwrap(par_files) = map_entries(par_env, ParEntries)

\* The root level collected with the extraction of d failed and the three
\* other entries recorded
C15_Witness ==
    /\ par_pc = "ret"
    /\ par_dir = 1
    /\ par_hidden
    /\ par_env.meta_fail = {4}
    /\ Len(Unwrap(par_files)) = 3

----------------------------------------------------------------------------
(* What the payload is said to be. *)

\* The texts ts, a line break between each two of them
Lines(ts) ==
    LET t[i \in 0..Len(ts)] ==
            IF i = 0 THEN << >>
            ELSE IF i = 1 THEN ts[1]
            ELSE t[i - 1] \o <<"\n">> \o ts[i]
    IN  t[Len(ts)]

\* C16: with the effective format table and compact set the payload is the
\* names of the sorted records joined by single newlines and nothing else,
\* no header and no colours, whatever use_color and the theme are; with the
\* effective format json or json-pretty the payload is the one the request
\* with the other value of compact gives.
C16_CompactIsNamesOnly ==
    IsSome(output) =>
        /\ (effective_format(cli) = "table" /\ cli.compact) =>
              Unwrap(output) = [kind |-> "compact", text |-> Lines(NamesOf(files))]
        /\ effective_format(cli) \in {"json", "json-pretty"} =>
              Unwrap(output) =
                  render([cli EXCEPT !.compact = ~cli.compact], files, Unwrap(theme))

\* A compact payload of several names rendered with colours asked for and
\* a theme from a config file
C16_Witness ==
    /\ IsSome(output)
    /\ cli.compact
    /\ ~cli.no_color
    /\ env.config # NoConfig
    /\ effective_format(cli) = "table"
    /\ Len(files) > 1
    /\ Unwrap(output).kind = "compact"

KeysOf(obj) == [k \in 1..Len(obj) |-> obj[k][1]]

\* The value the object has for a key
ValueOf(obj, key) == obj[CHOOSE k \in 1..Len(obj) : obj[k][1] = key][2]

\* C18: for the effective formats json and json-pretty the payload is an
\* array with one object per record of the sorted sequence, in that order,
\* each with exactly the keys name, e_type, len_bytes, human_size,
\* modified, permissions, owner, group, holding the fields of the record,
\* e_type being File, Directory or Symlink and len_bytes a number; no
\* record gives the empty array.
C18_JsonSchema ==
    (IsSome(output) /\ effective_format(cli) \in {"json", "json-pretty"}) =>
        LET items == Unwrap(output).items
        IN  /\ Unwrap(output).kind = "json"
            /\ Len(items) = Len(files)
            /\ files = << >> => items = << >>
            /\ \A i \in 1..Len(items) :
                  /\ KeysOf(items[i]) = <<"name", "e_type", "len_bytes", "human_size",
                                          "modified", "permissions", "owner", "group">>
                  /\ ValueOf(items[i], "name") = files[i].name
                  /\ ValueOf(items[i], "e_type") = files[i].e_type
                  /\ ValueOf(items[i], "e_type") \in {"File", "Directory", "Symlink"}
                  /\ ValueOf(items[i], "len_bytes") = files[i].len_bytes
                  /\ ValueOf(items[i], "len_bytes") \in Nat
                  /\ ValueOf(items[i], "human_size") = files[i].human_size
                  /\ ValueOf(items[i], "modified") = files[i].modified
                  /\ ValueOf(items[i], "permissions") = files[i].permissions
                  /\ ValueOf(items[i], "owner") = files[i].owner
                  /\ ValueOf(items[i], "group") = files[i].group

\* A JSON payload with objects for a file, a directory and a symlink
C18_Witness ==
    /\ IsSome(output)
    /\ Unwrap(output).kind = "json"
    /\ \E i, j, k \in 1..Len(Unwrap(output).items) :
          /\ ValueOf(Unwrap(output).items[i], "e_type") = "File"
          /\ ValueOf(Unwrap(output).items[j], "e_type") = "Directory"
          /\ ValueOf(Unwrap(output).items[k], "e_type") = "Symlink"

----------------------------------------------------------------------------
(* What the theme loader is said to give. *)

\* The sixteen colour names, as the documentation lists them
ValidColorNames == {ColorTable[i][1] : i \in 1..Len(ColorTable)}

\* A section of the config file gives a field a name that is no colour name
HasInvalidColor(section) ==
    /\ IsSome(section)
    /\ \E f \in DOMAIN Unwrap(section) :
          /\ IsSome(Unwrap(section)[f])
          /\ Unwrap(Unwrap(section)[f]) \notin ValidColorNames

\* The config file cannot be loaded: no config directory, no file, a file
\* that cannot be read or parsed, a table or file-type colour that is no
\* colour name
LoadFails(c) ==
    \/ c.state # "ok"
    \/ HasInvalidColor(c.colors.table)
    \/ HasInvalidColor(c.colors.file_types)

\* C19: load_theme always returns a theme, and when the config directory
\* cannot be determined, the file is absent, unreadable or unparseable
\* (a table or file-type colour that is no valid colour name included), the
\* theme returned is exactly the default theme.
C19_FailureYieldsDefaultTheme ==
    thm_pc = "ret" =>
        /\ IsSome(thm_res)
        /\ LoadFails(thm_cfg) => thm_res = Some(DefaultTheme)

\* load_theme has returned for a readable file whose table colour is unknown
C19_Witness ==
    /\ thm_pc = "ret"
    /\ thm_cfg.state = "ok"
    /\ IsSome(thm_cfg.colors.table)
    /\ Unwrap(thm_cfg.colors.table).name = Some(<<"p","u","r","p","l","e">>)
    /\ thm_res = Some(DefaultTheme)

\* A section with every colour name in lower case
LowerSection(section) ==
    IF IsSome(section)
    THEN Some([f \in DOMAIN Unwrap(section) |->
                 IF IsSome(Unwrap(section)[f])
                 THEN Some(to_lowercase(Unwrap(Unwrap(section)[f])))
                 ELSE None])
    ELSE None

\* A config file with every colour name in lower case
LowerConfig(c) ==
    [state  |-> c.state,
     colors |-> [plain      |-> Unwrap(LowerSection(Some(c.colors.plain))),
                 file_types |-> LowerSection(c.colors.file_types),
                 table      |-> LowerSection(c.colors.table),
                 extensions |-> IF IsSome(c.colors.extensions)
                                THEN Some([e \in DOMAIN Unwrap(c.colors.extensions) |->
                                             to_lowercase(Unwrap(c.colors.extensions)[e])])
                                ELSE None]]

\* C20: every colour name of the config file, in the file-type colours, the
\* table colours and the extension mappings alike, is resolved without
\* regard to letter case: the theme loaded is the theme the same file with
\* every colour name in lower case gives.
C20_ColourNamesCaseInsensitive ==
    thm_pc = "ret" =>
        thm_res = Some(load_theme([config |-> LowerConfig(thm_cfg)]))

\* A colour name is known to the extension mappings: it is one of the
\* sixteen names but for the letter case
KnownColorText(t) == to_lowercase(t) \in ValidColorNames

\* The colour a known name stands for
ColorOfText(t) ==
    ColorTable[CHOOSE i \in 1..Len(ColorTable) : ColorTable[i][1] = to_lowercase(t)][2]

\* The config file without its extension mappings
WithoutExtensions(c) == [c EXCEPT !.colors.extensions = None]

\* C21: when a parseable config file holds extension mappings, the
\* extension map of the loaded theme is the default map overridden key by
\* key with every mapping whose colour name is known; a mapping of an
\* unknown name is dropped and changes neither the default entry of its
\* extension nor any other mapping, table colour or file-type colour.
C21_ExtensionMappingsOverrideKeyByKey ==
    (/\ thm_pc = "ret"
     /\ ~LoadFails(thm_cfg)
     /\ IsSome(thm_cfg.colors.extensions))
    => LET m  == Unwrap(thm_cfg.colors.extensions)
           th == Unwrap(thm_res)
           known == {e \in DOMAIN m : KnownColorText(m[e])}
       IN  /\ DOMAIN th.extensions = DOMAIN default_extension_colors \cup known
           /\ \A e \in DOMAIN th.extensions :
                 th.extensions[e] = IF e \in known THEN ColorOfText(m[e])
                                    ELSE default_extension_colors[e]
           /\ th.table = load_theme([config |-> WithoutExtensions(thm_cfg)]).table
           /\ th.file_types = load_theme([config |-> WithoutExtensions(thm_cfg)]).file_types

\* load_theme has returned for a config file that maps rs to an unknown name
\* and zz to a known one: rs keeps its default colour, zz has its own
C21_Witness ==
    /\ thm_pc = "ret"
    /\ thm_cfg.state = "ok"
    /\ ~LoadFails(thm_cfg)
    /\ thm_cfg.colors.extensions =
          Some([e \in ThemeExtKeys |-> IF e = <<"r","s">> THEN <<"p","u","r","p","l","e">>
                                       ELSE <<"R","E","D">>])
    /\ Unwrap(thm_res).extensions[<<"r","s">>] = "Yellow"
    /\ Unwrap(thm_res).extensions[<<"z","z">>] = "Red"

\* C22: a config file in the documented schema, with file, directory or
\* symlink set to valid colour names directly under [colors], loads as a
\* theme whose file-type colours are those colours.
C22_DocumentedSchemaSetsFileTypes ==
    (/\ thm_pc = "ret"
     /\ thm_cfg.state = "ok"
     /\ ~LoadFails(thm_cfg)
     /\ ~IsSome(thm_cfg.colors.file_types))
    => \A f \in DOMAIN thm_cfg.colors.plain :
          (/\ IsSome(thm_cfg.colors.plain[f])
           /\ Unwrap(thm_cfg.colors.plain[f]) \in ValidColorNames)
          => Unwrap(thm_res).file_types[f] = ColorOfText(Unwrap(thm_cfg.colors.plain[f]))

----------------------------------------------------------------------------
(* What the tree traversal is said to visit. *)

\* The directories whose read succeeded
EnumeratedDirs == {read_log[k] : k \in {k \in 1..Len(read_log) : read_log[k] \notin env.read_fail}}

\* The entry n is there, passes the hidden-file policy and has metadata
Listed(n) ==
    /\ n \notin env.absent
    /\ n \notin env.meta_fail
    /\ cli.all \/ ~Hidden(Fs[n].name)

\* The directory n is within the depth bound, its read succeeds, and it is
\* the root or a listed directory of a directory that is itself to be
\* enumerated
RECURSIVE ToEnumerate(_)
ToEnumerate(n) ==
    /\ IsSome(cli.depth) => Depth(n) <= Unwrap(cli.depth)
    /\ n \notin env.read_fail
    /\ \/ n = resolve_path(cli)
       \/ /\ Fs[n].parent # 0
          /\ Fs[n].kind = "dir"
          /\ Listed(n)
          /\ ToEnumerate(Fs[n].parent)

\* C23: in tree mode with max_depth = N and the root at depth 0 a directory
\* is enumerated iff its depth is at most N, it is reachable from the root
\* through directories that are not filtered out, and its read succeeds; the
\* result holds records for exactly the entries of those directories; with
\* max_depth absent every reachable directory is enumerated.
C23_EnumeratedIffWithinDepth ==
    (cli.tree /\ Loaded) =>
        /\ EnumeratedDirs = {n \in Nodes : ToEnumerate(n)}
        /\ \A n \in Nodes :
              (Fs[n].parent \in EnumeratedDirs /\ Listed(n)) => HasRecord(traversed, n)
        /\ Len(traversed) =
              Cardinality({n \in Nodes : Fs[n].parent \in EnumeratedDirs /\ Listed(n)})

\* A tree traversal with max_depth = 1 that enumerated the root and d and
\* returned the record of e, at depth 1, and not that of e/a.rs, at depth 2
C23_Witness ==
    /\ cli.tree
    /\ cli.depth = Some(1)
    /\ pc = "filter"
    /\ read_log = <<1, 4>>
    /\ env.absent = {}
    /\ HasRecord(traversed, 8)
    /\ ~HasRecord(traversed, 10)

\* C24: with max_depth absent the tree traversal holds its pending
\* directories in a work queue and does not call itself, so that the number
\* of nested activations of the traversal stays the same however deep the
\* tree is: never more than the one activation get_files_recursive starts.
C24_NoCallStackRecursion ==
    (cli.tree /\ cli.depth = None) => Len(stack) <= 1

----------------------------------------------------------------------------
(* What the colour of a file is said to be. *)

\* The positions of the dots of a name
DotsOf(name) == {i \in 1..Len(name) : name[i] = "."}

\* The text after the last dot of a name that has one, in lower case
ExtensionOf(name) ==
    LET last == CHOOSE i \in DotsOf(name) : \A j \in DotsOf(name) : j <= i
    IN  to_lowercase(SubSeq(name, last + 1, Len(name)))

\* C25: for a File get_file_color returns the theme's extension colour of
\* the lower-cased text after the last '.' of the name when the theme maps
\* that extension, and the theme's file colour otherwise, also when the name
\* has no '.'; for a Directory the theme's directory colour and for a
\* Symlink the theme's symlink colour, whatever the extension of the name.
C25_FileColor ==
    col_pc = "ret" =>
        /\ IsSome(col_res)
        /\ col_type = "File" =>
              IF DotsOf(col_name) # {} /\ ExtensionOf(col_name) \in DOMAIN col_theme.extensions
              THEN Unwrap(col_res) = col_theme.extensions[ExtensionOf(col_name)]
              ELSE Unwrap(col_res) = col_theme.file_types.file
        /\ col_type = "Directory" => Unwrap(col_res) = col_theme.file_types.directory
        /\ col_type = "Symlink" => Unwrap(col_res) = col_theme.file_types.symlink

\* The colour of the file a.tar.GZ was asked of the default theme, which
\* maps gz to red
C25_Witness ==
    /\ col_pc = "ret"
    /\ col_type = "File"
    /\ col_name = <<"a",".","t","a","r",".","G","Z">>
    /\ col_theme = DefaultTheme
    /\ col_res = Some("Red")

\* C26: in tree mode the filter chain never prunes the traversal: which
\* directories are entered depends on the hidden-file policy, the depth
\* bound and the reads alone, so an entry below a directory the extension,
\* name or size predicates reject is in the output of the filter step when
\* the entry itself passes the predicates.
C26_FiltersNeverPrune ==
    (cli.tree /\ pc \in {"sort", "render", "write"}) =>
        /\ EnumeratedDirs = {n \in Nodes : ToEnumerate(n)}
        /\ \A n \in Nodes :
              (/\ Fs[n].parent \in EnumeratedDirs
               /\ Listed(n)
               /\ passes_filters(Unwrap(map_data(env, n)), Unwrap(cfg)))
              => HasRecord(filtered, n)

\* A tree listing filtered by extension kept e/a.rs and neither e nor d
C26_Witness ==
    /\ cli.tree
    /\ pc = "sort"
    /\ IsSome(Unwrap(cfg).exts)
    /\ HasRecord(filtered, 10)
    /\ ~HasRecord(filtered, 8)
    /\ ~HasRecord(filtered, 4)

\* The node n lies below a directory whose name begins with '.'
RECURSIVE BelowHidden(_)
BelowHidden(n) ==
    /\ Fs[n].parent # 0
    /\ \/ Fs[Fs[n].parent].kind = "dir" /\ Hidden(Fs[Fs[n].parent].name)
       \/ BelowHidden(Fs[n].parent)

\* C27: in tree mode with include_hidden false a directory whose name begins
\* with '.' is never descended into, so no entry anywhere below a hidden
\* directory is in the result, also when its own name does not begin with
\* '.'.
C27_HiddenDirectoriesNotEntered ==
    (cli.tree /\ ~cli.all) =>
        /\ \A k \in 1..Len(read_log) : ~Hidden(Fs[read_log[k]].name)
        /\ \A n \in Nodes :
              BelowHidden(n) => ~HasRecord(files, n) /\ ~HasRecord(traversed, n)

\* A tree listing without --all read d, where the hidden directory .g with
\* the file x.txt in it is, and returned no record of x.txt
C27_Witness ==
    /\ cli.tree
    /\ ~cli.all
    /\ cli.depth = None
    /\ pc = "filter"
    /\ 7 \notin env.absent
    /\ 9 \notin env.absent
    /\ \E k \in 1..Len(read_log) : read_log[k] = 4
    /\ HasRecord(traversed, 6)
    /\ ~HasRecord(traversed, 9)

\* Only directories are read and entered, and none of them twice
EveryDirectoryOnce ==
    cli.tree =>
        /\ \A k \in 1..Len(read_log) : Fs[read_log[k]].kind = "dir"
        /\ \A j, k \in 1..Len(read_log) : read_log[j] = read_log[k] => j = k
        /\ \A k \in 1..Len(stack) : Fs[stack[k].path].kind = "dir"

\* C28: the tree traversal with max_depth absent terminates on every finite
\* tree, also one with symbolic links to an ancestor directory: whether an
\* entry is entered is decided on its own metadata, a symbolic link is never
\* entered, and every directory is enumerated at most once.
C28_TraversalTerminates ==
    /\ []EveryDirectoryOnce
    /\ (pc = "tree" /\ cli.depth = None) ~> (pc # "tree")

\* A tree traversal with max_depth absent that read e, where the symbolic
\* link up to the root is, has returned with the record of the link
C28_Witness ==
    /\ cli.tree
    /\ cli.depth = None
    /\ pc = "filter"
    /\ 11 \notin env.absent
    /\ \E k \in 1..Len(read_log) : read_log[k] = 8
    /\ 8 \notin env.read_fail
    /\ HasRecord(traversed, 11)

----------------------------------------------------------------------------
(* What the theme commands are said to do to the config file. *)

\* The reset run r removed the file or found none
ResetSucceeded(r) ==
    /\ r.cmd = "reset"
    /\ r.out \in {<<"Theme reset to default">>, <<"Theme already at default">>}

----------------------------------------------------------------------------
(* What the payload of a flat listing is said to depend on. *)

\* The records extracted from the directory of the level, as a set
ExtractedRecords ==
    { Unwrap(map_data(par_env, n)) :
        n \in {n \in Nodes : /\ Fs[n].parent = par_dir
                             /\ par_hidden \/ ~Hidden(Fs[n].name)
                             /\ n \notin par_env.meta_fail} }

\* The records of a set in one fixed order
RECURSIVE SeqOfSet(_)
SeqOfSet(S) ==
    IF S = {} THEN << >>
    ELSE LET x == CHOOSE x \in S : TRUE IN <<x>> \o SeqOfSet(S \ {x})

\* C30: in flat mode with sort = name the payload is determined by the set
\* of the records extracted alone: runs over the same directory that differ
\* in the order the directory is enumerated in, or in the schedule of the
\* parallel extraction, give the same payload.
C30_PayloadDependsOnRecordSetOnly ==
    par_pc = "out" =>
        Unwrap(par_payload).payload =
            render(Unwrap(par_payload).cli,
                   sort(SeqOfSet(ExtractedRecords), "name"),
                   DefaultTheme)

\* The listing of the root with its entries enumerated in reverse, four
\* records extracted, was rendered as a table
C30_Witness ==
    /\ par_pc = "out"
    /\ par_dir = 1
    /\ par_hidden
    /\ par_env.rev
    /\ par_env.meta_fail = {}
    /\ Cardinality(ExtractedRecords) = 4
    /\ Unwrap(par_payload).cli = DefaultCli

====
